---- MODULE Spec2Model ----
(***************************************************************************)
(* Model of the MockInvi payment / learning back end:                      *)
(*   - the identity resolver generateConsistentUUID in its three copies    *)
(*     (payment edge function, learning edge function, stored procedure),  *)
(*   - the verify_payment saga of the payment edge function.               *)
(* Strings are sequences of character codes (charCodeAt / ascii).          *)
(***************************************************************************)
EXTENDS Integers, Sequences, FiniteSets, Bags, TLC

\* ------------------------------------------------------------------ bounds
MaxLen == 3        \* longest external id fed to the resolvers
MaxReqs == 2       \* request slots (requests that can be in flight together)
MaxTicks == 1      \* clock advances during a run
MaxStarted == 3    \* requests received during a run

\* ------------------------------------------------------- 32-bit arithmetic
TwoTo16 == 65536
MaxInt32 == 2147483647
MinInt32 == (-2147483647) - 1

Hi16(h) == h \div TwoTo16
Lo16(h) == h % TwoTo16

\* ECMAScript ToInt32 of the exact value hi * 2^16 + lo.
ToInt32(hi, lo) ==
  LET l == lo % TwoTo16
      c == lo \div TwoTo16
      u == (hi + c) % TwoTo16
      s == IF u >= 32768 THEN u - TwoTo16 ELSE u
  IN  s * TwoTo16 + l

\* x << 5 on a 32-bit integer (same in ECMAScript and in int4shl).
Shl5(h) == ToInt32(Hi16(h) * 32, Lo16(h) * 32)

\* ------------------------------------------------------ string primitives
Hyphen == 45
Zero == 48
HexChar(d) == IF d < 10 THEN 48 + d ELSE 87 + d
IsHexChar(c) == (c >= 48 /\ c <= 57) \/ (c >= 97 /\ c <= 102)
Min(a, b) == IF a < b THEN a ELSE b

RECURSIVE Repeat(_, _)
Repeat(c, n) == IF n <= 0 THEN << >> ELSE <<c>> \o Repeat(c, n - 1)

\* String.prototype.slice(a, b) for 0 <= a <= b.
Slice(s, a, b) == SubSeq(s, a + 1, Min(b, Len(s)))
\* String.prototype.padStart / padEnd with a one-character filler.
PadStart(s, n, c) == Repeat(c, n - Len(s)) \o s
PadEnd(s, n, c) == s \o Repeat(c, n - Len(s))

\* Digits of a non-negative number given as hi * 2^16 + lo, most significant
\* first, without leading zeros ("0" for zero): Number.prototype.toString(16)
\* and to_hex.
RECURSIVE StripZeros(_)
StripZeros(s) ==
  IF Len(s) > 1 /\ Head(s) = Zero THEN StripZeros(Tail(s)) ELSE s

Hex4(n) ==
  << HexChar((n \div 4096) % 16), HexChar((n \div 256) % 16),
     HexChar((n \div 16) % 16), HexChar(n % 16) >>

ToString16(hi, lo) ==
  StripZeros(<<HexChar(hi \div 65536)>> \o Hex4(hi % 65536) \o Hex4(lo))

\* Math.abs of an int32, as the pair (hi, lo) because 2^31 is a valid result.
MathAbs(h) ==
  IF h >= 0 THEN <<Hi16(h), Lo16(h)>>
  ELSE IF h = MinInt32 THEN <<32768, 0>>
  ELSE <<Hi16(-h), Lo16(-h)>>

\* ----------------------------------------------------- identity resolvers
\* External subject ids: every non-empty string over Alphabet up to MaxLen
\* for the resolver run, and the users of the payment runs.
Alphabet == {116, 98, 109}     \* 't', 'b', 'm'
RECURSIVE Strings(_, _)
Strings(A, n) ==
  IF n = 0 THEN {<< >>}
  ELSE LET S == Strings(A, n - 1)
       IN  S \cup {<<a>> \o s : a \in A, s \in {x \in S : Len(x) = n - 1}}
ExternalIds == Strings(Alphabet, MaxLen) \ {<< >>}
UserT == <<116, 98, 109>>       \* "tbm"
UserB == <<97, 104, 107>>       \* "ahk"
UserM == <<109>>                \* "m"
KnownIds == ExternalIds \cup {UserT, UserB, UserM}

NAMESPACE_UUID ==
  << 49, 98, 54, 55, 49, 97, 54, 52, 45, 52, 48, 100, 53, 45, 52, 57, 49,
     101, 45, 57, 57, 98, 48, 45, 100, 97, 48, 49, 102, 102, 49, 102, 51,
     51, 52, 49 >>

\* --- stored procedure public.generateConsistentUUID (PL/pgSQL, int4) ---
SqlFault == -1     \* marks "integer out of range" (hash_val itself is >= 0)

\* substring(s from a for n), lpad(s, n, fill) with a one-character filler
\* (lpad truncates on the right when s is longer than n).
Substring(s, a, n) == SubSeq(s, a, Min(a + n - 1, Len(s)))
Lpad(s, n, c) == IF Len(s) >= n THEN SubSeq(s, 1, n) ELSE Repeat(c, n - Len(s)) \o s

\* hash_val := ((hash_val << 5) - hash_val + char_code) & 2147483647
\* int4shl wraps silently; int4mi and int4pl raise on overflow.
SqlHashStep(hash_val, char_code) ==
  LET s == Shl5(hash_val)
  IN  IF s < MinInt32 + hash_val THEN SqlFault
      ELSE LET t == s - hash_val
           IN  IF t > MaxInt32 - char_code THEN SqlFault
               ELSE LET v == t + char_code
                    IN  IF v < 0 THEN (v + MaxInt32) + 1 ELSE v

RECURSIVE SqlHash(_, _, _)
SqlHash(input_text, i, hash_val) ==
  IF i > Len(input_text) THEN hash_val
  ELSE LET h == SqlHashStep(hash_val, input_text[i])
       IN  IF h = SqlFault THEN SqlFault ELSE SqlHash(input_text, i + 1, h)

\* lpad(to_hex(abs(hash_val)), 8, '0'), hash_val >= 0
SqlHex(hash_val) == Lpad(ToString16(Hi16(hash_val), Lo16(hash_val)), 8, Zero)

SqlFormat(hex_str) ==
  Substring(hex_str, 1, 8) \o <<Hyphen>> \o Substring(hex_str, 1, 4)
    \o <<Hyphen, 52>> \o Substring(hex_str, 2, 3) \o <<Hyphen, 97>>
    \o Substring(hex_str, 1, 3) \o Lpad(Substring(hex_str, 1, 12), 12, Zero)

\* uuid_str::UUID : uuid_in accepts 32 hex digits with an optional hyphen
\* after each group of four digits and prints the canonical 8-4-4-4-12 text.
RECURSIVE UuidDigits(_, _)
UuidDigits(s, n) ==
  IF s = << >> THEN << >>
  ELSE IF Head(s) = Hyphen
       THEN IF n > 0 /\ n % 4 = 0 /\ Len(s) > 1 /\ s[2] # Hyphen
            THEN UuidDigits(Tail(s), n) ELSE <<SqlFault>>
       ELSE IF IsHexChar(Head(s)) THEN <<Head(s)>> \o UuidDigits(Tail(s), n + 1)
       ELSE <<SqlFault>>

UuidCastOk(s) ==
  LET d == UuidDigits(s, 0)
  IN  Len(d) = 32 /\ \A k \in 1..Len(d) : d[k] # SqlFault

UuidCast(s) ==
  LET d == UuidDigits(s, 0)
  IN  SubSeq(d, 1, 8) \o <<Hyphen>> \o SubSeq(d, 9, 12) \o <<Hyphen>>
        \o SubSeq(d, 13, 16) \o <<Hyphen>> \o SubSeq(d, 17, 20) \o <<Hyphen>>
        \o SubSeq(d, 21, 32)

\* public.generateConsistentUUID; rnd is what gen_random_uuid() would return
\* in the EXCEPTION WHEN OTHERS branch.
SqlBody(user_id) ==
  LET hash_val == SqlHash(user_id \o NAMESPACE_UUID, 1, 0)
  IN  IF hash_val = SqlFault THEN [fallback |-> TRUE, uuid |-> << >>]
      ELSE LET uuid_str == SqlFormat(SqlHex(hash_val))
           IN  IF UuidCastOk(uuid_str)
               THEN [fallback |-> FALSE, uuid |-> UuidCast(uuid_str)]
               ELSE [fallback |-> TRUE, uuid |-> << >>]

\* The body's outcome, tabulated once for the ids that occur in the runs.
SqlResolved == [u \in KnownIds |-> SqlBody(u)]

SqlGenerateConsistentUUID(user_id, rnd) ==
  IF SqlResolved[user_id].fallback THEN [fallback |-> TRUE, uuid |-> rnd]
  ELSE SqlResolved[user_id]

\* No statement of the try block can throw for a string argument: string
\* concatenation, charCodeAt, number arithmetic, toString, padStart, slice.
PayTryThrows(userId) == FALSE

\* hash = ((hash << 5) - hash) + char; hash = hash & hash
PayHashStep(hash, char) ==
  LET s == Shl5(hash)
  IN  ToInt32(Hi16(s) - Hi16(hash), (Lo16(s) - Lo16(hash)) + char)

RECURSIVE PayHash(_, _, _)
PayHash(input, i, hash) ==
  IF i > Len(input) THEN hash
  ELSE LET h == PayHashStep(hash, input[i])
       IN  \* the test only makes the evaluator reduce h before the next round
           IF h >= MinInt32 THEN PayHash(input, i + 1, h) ELSE h

\* Variant: the hex rendering is not padded to eight digits.
PayHex_unpadded(hash) ==
  LET a == MathAbs(hash) IN ToString16(a[1], a[2])

PayHex(hash) ==
  LET a == MathAbs(hash) IN PadStart(ToString16(a[1], a[2]), 8, Zero)

PayFormat(hex) ==
  Slice(hex, 0, 8) \o <<Hyphen>> \o Slice(hex, 0, 4) \o <<Hyphen, 52>>
    \o Slice(hex, 1, 4) \o <<Hyphen, 97>> \o Slice(hex, 0, 3) \o <<Hyphen>>
    \o PadEnd(Slice(hex, 0, 12), 12, Zero)

\* The try block: its value, or that it threw.
PayTry(userId) ==
  IF PayTryThrows(userId) THEN [fallback |-> TRUE, uuid |-> << >>]
  ELSE [fallback |-> FALSE,
        uuid |-> PayFormat(PayHex(PayHash(userId \o NAMESPACE_UUID, 1, 0)))]

\* The try block's outcome, tabulated once for the ids that occur in the runs.
PayResolved == [u \in KnownIds |-> PayTry(u)]

\* Variant: the fold uses checked 32-bit arithmetic, so an overflow throws
\* and the catch branch answers with a random UUID.
PayGenerateConsistentUUID_checked(userId, rnd) ==
  IF SqlResolved[userId].fallback THEN [fallback |-> TRUE, uuid |-> rnd]
  ELSE PayResolved[userId]

\* generateConsistentUUID of the payment function; rnd is what
\* crypto.randomUUID() would return in the catch branch.
PayGenerateConsistentUUID(userId, rnd) ==
  IF PayResolved[userId].fallback THEN [fallback |-> TRUE, uuid |-> rnd]
  ELSE PayResolved[userId]

\* No statement of the try block can throw for a string argument.
LearnTryThrows(userId) == FALSE

\* Variant: the fold masks to 31 bits instead of wrapping to a signed int32.
LearnHashStep_masked(hash, char) ==
  LET s == Shl5(hash)
      v == ToInt32(Hi16(s) - Hi16(hash), (Lo16(s) - Lo16(hash)) + char)
  IN  IF v < 0 THEN (v + MaxInt32) + 1 ELSE v

\* hash = ((hash << 5) - hash) + char; hash = hash & hash
LearnHashStep(hash, char) ==
  LET s == Shl5(hash)
  IN  ToInt32(Hi16(s) - Hi16(hash), (Lo16(s) - Lo16(hash)) + char)

RECURSIVE LearnHash(_, _, _)
LearnHash(input, i, hash) ==
  IF i > Len(input) THEN hash
  ELSE LET h == LearnHashStep(hash, input[i])
       IN  \* the test only makes the evaluator reduce h before the next round
           IF h >= MinInt32 THEN LearnHash(input, i + 1, h) ELSE h

LearnHex(hash) ==
  LET a == MathAbs(hash) IN PadStart(ToString16(a[1], a[2]), 8, Zero)

LearnFormat(hex) ==
  Slice(hex, 0, 8) \o <<Hyphen>> \o Slice(hex, 0, 4) \o <<Hyphen, 52>>
    \o Slice(hex, 1, 4) \o <<Hyphen, 97>> \o Slice(hex, 0, 3) \o <<Hyphen>>
    \o PadEnd(Slice(hex, 0, 12), 12, Zero)

\* generateConsistentUUID of the learning function.
LearnTry(userId) ==
  IF LearnTryThrows(userId) THEN [fallback |-> TRUE, uuid |-> << >>]
  ELSE [fallback |-> FALSE,
        uuid |-> LearnFormat(LearnHex(LearnHash(userId \o NAMESPACE_UUID, 1, 0)))]

LearnResolved == [u \in KnownIds |-> LearnTry(u)]

LearnGenerateConsistentUUID(userId, rnd) ==
  IF LearnResolved[userId].fallback THEN [fallback |-> TRUE, uuid |-> rnd]
  ELSE LearnResolved[userId]

\* Values crypto.randomUUID() / gen_random_uuid() may return (version 4).
RandomUUIDs ==
  { Repeat(c, 8) \o <<Hyphen>> \o Repeat(c, 4) \o <<Hyphen, 52>> \o Repeat(c, 3)
      \o <<Hyphen, 56>> \o Repeat(c, 3) \o <<Hyphen>> \o Repeat(c, 12)
    : c \in {99, 100} }

\* ------------------------------------------------------------------ state
VARIABLES
  externalId,     \* resolver run: the external subject id under test
  calls,          \* resolver run: results of the calls made so far
  req,            \* payment function: one record per in-flight request
  payments,       \* table public.payments (bag of rows, append-only)
  subscriptions,  \* table public.user_subscriptions (set of rows)
  profiles,       \* table public.profiles (set of rows)
  now,            \* wall clock, one-day resolution
  ticks,          \* clock advances so far
  started,        \* requests received so far
  lreq,           \* learning function: one record per in-flight request
  user_certificates,  \* table public.user_certificates (set of rows)
  certificates,   \* table public.certificates (set of rows)
  course_certificate_management,  \* table of the same name (set of rows)
  user_learning,  \* table public.user_learning (set of rows)
  course_questions,  \* table public.course_questions (never written here)
  hook            \* useCertificates: the state of the component using the hook

vars == <<externalId, calls, req, payments, subscriptions, profiles, now,
          ticks, started, lreq, user_certificates, certificates,
          course_certificate_management, user_learning, course_questions,
          hook>>

learnVars == <<lreq, user_certificates, certificates,
               course_certificate_management, user_learning, course_questions>>

\* The learning function is not part of the run: no request, empty tables.
LearnAbsent ==
  /\ lreq = [r \in 1..MaxReqs |-> [pc |-> "idle"]]
  /\ user_certificates = {}
  /\ certificates = {}
  /\ course_certificate_management = {}
  /\ user_learning = {}
  /\ course_questions = {}

None == [fallback |-> FALSE, uuid |-> << >>]

\* The state of a closure of the effect callback: the values of the auth
\* context it captured.
NoClosure == [isAuthenticated |-> FALSE, hasIds |-> FALSE]

\* A call of fetchCertificates that is not running.
NoFetch == [pc |-> "idle", isAuthenticated |-> FALSE, hasIds |-> FALSE]

\* No component uses the hook in the run.
Unmounted ==
  [rendered |-> FALSE, isAuthenticated |-> FALSE, hasIds |-> FALSE,
   effect |-> "none", closure |-> NoClosure, subscribed |-> FALSE,
   loading |-> FALSE, userCertificates |-> {}, availableCertificates |-> {},
   fetch |-> [f \in 1..MaxReqs |-> NoFetch], changes |-> 0, events |-> 0,
   refetches |-> 0]

\* ------------------------------------------------- resolver specification
Runtimes == {"pay", "learn", "sql"}
Slots == Runtimes \X {1, 2}

payVars == <<req, payments, subscriptions, profiles, now, ticks, started>>

InitResolve ==
  /\ externalId \in ExternalIds
  /\ calls = [s \in Slots |-> None]
  /\ hook = Unmounted
  /\ req = [r \in 1..MaxReqs |-> [pc |-> "idle"]]
  /\ payments = EmptyBag
  /\ subscriptions = {}
  /\ profiles = {}
  /\ now = [y |-> 2024, m |-> 0, d |-> 30]
  /\ ticks = 0
  /\ started = 0
  /\ LearnAbsent

CallPay(k) ==
  /\ calls[<<"pay", k>>] = None
  /\ \E rnd \in RandomUUIDs :
       calls' = [calls EXCEPT ![<<"pay", k>>] = PayGenerateConsistentUUID(externalId, rnd)]
  /\ UNCHANGED <<externalId, hook, payVars, learnVars>>

CallLearn(k) ==
  /\ calls[<<"learn", k>>] = None
  /\ \E rnd \in RandomUUIDs :
       calls' = [calls EXCEPT ![<<"learn", k>>] = LearnGenerateConsistentUUID(externalId, rnd)]
  /\ UNCHANGED <<externalId, hook, payVars, learnVars>>

CallSql(k) ==
  /\ calls[<<"sql", k>>] = None
  /\ \E rnd \in RandomUUIDs :
       calls' = [calls EXCEPT ![<<"sql", k>>] = SqlGenerateConsistentUUID(externalId, rnd)]
  /\ UNCHANGED <<externalId, hook, payVars, learnVars>>

NextResolve == \E k \in {1, 2} : CallPay(k) \/ CallLearn(k) \/ CallSql(k)

SpecResolve == InitResolve /\ [][NextResolve]_vars

\* ------------------------------------------------ payment edge function
Pipe == 124

\* TextEncoder.encode: UTF-8 (two-byte form suffices for the codes used).
Utf8Char(c) == IF c < 128 THEN <<c>> ELSE <<192 + (c \div 64), 128 + (c % 64)>>
RECURSIVE TextEncode(_)
TextEncode(str) ==
  IF str = << >> THEN << >> ELSE Utf8Char(Head(str)) \o TextEncode(Tail(str))

\* crypto.subtle.sign('HMAC', key, data) as an ideal MAC: the digest is an
\* injective encoding of (key, data), so distinct inputs never collide.
HmacSha256(key, data) == <<Len(key)>> \o key \o data

\* Array.from(bytes).map(b => b.toString(16).padStart(2, '0')).join('')
RECURSIVE HexEncode(_)
HexEncode(bytes) ==
  IF bytes = << >> THEN << >>
  ELSE PadStart(ToString16(0, Head(bytes)), 2, Zero) \o HexEncode(Tail(bytes))

\* expectedSignature for `${razorpay_order_id}|${razorpay_payment_id}`
ExpectedSignature(secret, order_id, payment_id) ==
  HexEncode(HmacSha256(TextEncode(secret),
                       TextEncode(order_id \o <<Pipe>> \o payment_id)))

\* --- Date: local time is UTC, one-day resolution, month index 0..11 ---
DaysInMonth(y, m) ==
  IF m = 1 THEN (IF y % 4 = 0 /\ (y % 100 # 0 \/ y % 400 = 0) THEN 29 ELSE 28)
  ELSE IF m \in {3, 5, 8, 10} THEN 30 ELSE 31

\* The Date object's normalisation of an out-of-range month or day.
RECURSIVE MakeDate(_, _, _)
MakeDate(y, m, d) ==
  LET y1 == y + (m \div 12)
      m1 == m % 12
  IN  IF d > DaysInMonth(y1, m1) THEN MakeDate(y1, m1 + 1, d - DaysInMonth(y1, m1))
      ELSE [y |-> y1, m |-> m1, d |-> d]

\* Variant: the day of month is clamped to the target month's last day.
SetMonthPlusOne_clamped(date) ==
  LET y1 == date.y + ((date.m + 1) \div 12)
      m1 == (date.m + 1) % 12
  IN  [y |-> y1, m |-> m1, d |-> Min(date.d, DaysInMonth(y1, m1))]

\* subscriptionEnd.setMonth(subscriptionEnd.getMonth() + 1)
SetMonthPlusOne(date) == MakeDate(date.y, date.m + 1, date.d)

\* Date.prototype.toISOString, date part (months print 1-based).
ToISOString(date) == [year |-> date.y, month |-> date.m + 1, day |-> date.d]

NoDate == [year |-> 0, month |-> 0, day |-> 0]

\* --- table public.profiles and the profile stored procedures ---
Null == << -1 >>
Coalesce(a, b) == IF a # Null THEN a ELSE b
Student == <<115, 116, 117, 100, 101, 110, 116>>
Clerk == <<99, 108, 101, 114, 107>>

\* WHERE email = p_email: a comparison with NULL selects no row.
EmailIs(x, p_email) == p_email # Null /\ x.email = p_email

\* Variant: a touch overwrites the display name.
EnsureUserProfile_overwrite(P, p_user_id, p_full_name, p_email, p_role, p_auth_provider) ==
  IF \E x \in P : x.id = p_user_id
  THEN { IF x.id = p_user_id
         THEN [x EXCEPT !.full_name = p_full_name,
                        !.email = Coalesce(@, p_email),
                        !.role = Coalesce(@, p_role),
                        !.auth_provider = Coalesce(@, p_auth_provider)]
         ELSE x : x \in P }
  ELSE IF \E x \in P : EmailIs(x, p_email)
  THEN { IF EmailIs(x, p_email)
         THEN [x EXCEPT !.id = p_user_id,
                        !.full_name = Coalesce(@, p_full_name),
                        !.role = Coalesce(@, p_role),
                        !.auth_provider = Coalesce(@, p_auth_provider)]
         ELSE x : x \in P }
  ELSE P \cup {[id |-> p_user_id, full_name |-> p_full_name, email |-> p_email,
                role |-> p_role, auth_provider |-> p_auth_provider]}

\* public.ensure_user_profile: the table after the call.
EnsureUserProfile(P, p_user_id, p_full_name, p_email, p_role, p_auth_provider) ==
  IF \E x \in P : x.id = p_user_id
  THEN { IF x.id = p_user_id
         THEN [x EXCEPT !.full_name = Coalesce(@, p_full_name),
                        !.email = Coalesce(@, p_email),
                        !.role = Coalesce(@, p_role),
                        !.auth_provider = Coalesce(@, p_auth_provider)]
         ELSE x : x \in P }
  ELSE IF \E x \in P : EmailIs(x, p_email)
  THEN { IF EmailIs(x, p_email)
         THEN [x EXCEPT !.id = p_user_id,
                        !.full_name = Coalesce(@, p_full_name),
                        !.role = Coalesce(@, p_role),
                        !.auth_provider = Coalesce(@, p_auth_provider)]
         ELSE x : x \in P }
  ELSE P \cup {[id |-> p_user_id, full_name |-> p_full_name, email |-> p_email,
                role |-> p_role, auth_provider |-> p_auth_provider]}

\* public.get_or_create_user_profile
GetOrCreateUserProfile(P, p_clerk_user_id, p_full_name, p_email, p_role, rnd) ==
  EnsureUserProfile(P, SqlGenerateConsistentUUID(p_clerk_user_id, rnd).uuid,
                    p_full_name, p_email, p_role, Clerk)

\* user_email.split('@')[0]
RECURSIVE BeforeAt(_)
BeforeAt(str) ==
  IF str = << >> \/ Head(str) = 64 THEN << >> ELSE <<Head(str)>> \o BeforeAt(Tail(str))

\* --- requests ---
Reqs == 1..MaxReqs
NoPayload == [none |-> TRUE]
NoResponse == [status |-> 0, body |-> [none |-> TRUE]]
\* The body posted to the gateway's order API (none so far).
NoOrder == [none |-> TRUE]
IdleReq ==
  [pc |-> "idle", action |-> "", payload |-> NoPayload, supabaseUserId |-> << >>,
   periodStart |-> NoDate, subscriptionEnd |-> NoDate, response |-> NoResponse,
   inserted |-> 0, upserted |-> 0, profileCalls |-> 0, order |-> NoOrder]

Secret == <<107>>                 \* admin_credentials.razorpay_key_secret
EmailT == <<116, 64, 120>>
EmailB == <<98, 64, 120>>
OrderA == <<97>>
OrderB == <<98>>
OrderAA == <<97, 124, 97>>
Plans == {"basic", "pro"}

\* String.prototype.toUpperCase on ASCII text.
UpperCase(str) ==
  [k \in 1..Len(str) |-> IF str[k] >= 97 /\ str[k] <= 122 THEN str[k] - 32 ELSE str[k]]

\* A signature that differs from sig in its last character.
Tamper(sig) ==
  [sig EXCEPT ![Len(sig)] = IF @ = Zero THEN 49 ELSE Zero]

VerifyPayload(uid, email, order_id, payment_id, sig, plan) ==
  [razorpay_order_id |-> order_id, razorpay_payment_id |-> payment_id,
   razorpay_signature |-> sig, plan_type |-> plan, amount |-> 499,
   currency |-> "INR", user_email |-> email, user_id |-> uid]

ValidSig == ExpectedSignature(Secret, OrderA, OrderA)
OrderPayload == [amount |-> 499, currency |-> "INR", receipt |-> "rcpt"]
OrderPayloads ==
  { OrderPayload,
    [amount |-> 0, currency |-> "INR", receipt |-> "rcpt"],
    [amount |-> 999, currency |-> "", receipt |-> "rcpt"],
    [amount |-> 12, currency |-> "USD", receipt |-> "r2"] }

\* Requests of the concurrent saga run: two users, two plans, and one forged
\* signature.
SagaRequests ==
  {"verify_payment"} \X
    { VerifyPayload(UserT, EmailT, OrderA, OrderA, ValidSig, "pro"),
      VerifyPayload(UserT, EmailT, OrderA, OrderA, ValidSig, "basic"),
      VerifyPayload(UserB, EmailB, OrderA, OrderA, ValidSig, "pro"),
      VerifyPayload(UserT, EmailT, OrderA, OrderA, Tamper(ValidSig), "pro") }

\* Requests of the one-at-a-time run: order and payment ids that differ in
\* one character or contain the separator, with signatures made for the same
\* or for another pair; incomplete requests; the other action tags ("refund"
\* is not a known action).
SigPairs ==
  { <<OrderA, OrderA>>, <<OrderB, OrderA>>, <<OrderA, OrderB>>,
    <<OrderAA, OrderA>>, <<OrderA, OrderAA>> }
SigChoices ==
  { ValidSig, ExpectedSignature(Secret, OrderAA, OrderA), Tamper(ValidSig),
    UpperCase(ValidSig) }
SeqRequests ==
  ({"verify_payment"} \X
     ({ VerifyPayload(UserT, EmailT, op[1], op[2], sig, "pro")
          : op \in SigPairs, sig \in SigChoices }
      \cup { VerifyPayload(<< >>, EmailT, OrderA, OrderA, ValidSig, "pro"),
             VerifyPayload(UserT, << >>, OrderA, OrderA, ValidSig, "pro") }))
  \cup ({"create_order", "refund"} \X {OrderPayload})

ErrorResponse(msg) ==
  [status |-> 400,
   body |-> [error |-> msg, details |-> "Enhanced payment processing failed"]]

Fail(r, msg) ==
  req' = [req EXCEPT ![r].pc = "done", ![r].response = ErrorResponse(msg)]

\* An admin-granted entitlement that may exist before any purchase.
AdminGranted(uid) ==
  [user_id |-> uid, plan_type |-> "pro", status |-> "active",
   current_period_start |-> [year |-> 2024, month |-> 1, day |-> 1],
   current_period_end |-> [year |-> 2025, month |-> 1, day |-> 1],
   was_granted |-> TRUE,
   updated_at |-> [year |-> 2024, month |-> 1, day |-> 1]]

InitPay ==
  /\ externalId = << >>
  /\ calls = [s \in Slots |-> None]
  /\ hook = Unmounted
  /\ req = [r \in Reqs |-> IdleReq]
  /\ payments = EmptyBag
  /\ subscriptions = {AdminGranted(PayGenerateConsistentUUID(UserT, << >>).uuid)}
  /\ profiles = {}
  /\ now = [y |-> 2024, m |-> 0, d |-> 31]
  /\ ticks = 0
  /\ started = 0
  /\ LearnAbsent

resolveVars == <<externalId, calls>>

\* serve: a request arrives and req.json() yields the action and its
\* payload; the handler then runs up to its first call that touches a table
\* this function writes.
Arrive(r, a, pl) ==
  /\ req[r].pc = "idle"
  /\ started < MaxStarted
  /\ started' = started + 1

Arrived(a, pl) == [IdleReq EXCEPT !.action = a, !.payload = pl]

FailArrived(r, a, pl, msg) ==
  req' = [req EXCEPT ![r] = [Arrived(a, pl) EXCEPT !.pc = "done",
                                                   !.response = ErrorResponse(msg)]]

\* select razorpay_key_id, razorpay_key_secret from admin_credentials fails
\* or finds no credentials (the table is never written by this function).
CredentialsMissing(r, a, pl) ==
  /\ Arrive(r, a, pl)
  /\ FailArrived(r, a, pl, "Razorpay credentials not configured in admin settings")
  /\ UNCHANGED <<learnVars, resolveVars, hook, payments, subscriptions, profiles, now, ticks>>

\* Variant: the amount is passed on in major units.
CreateOrder_unconverted(r, a, pl) ==
  /\ Arrive(r, a, pl)
  /\ a = "create_order"
  /\ LET order == [amount |-> pl.amount,
                   currency |-> IF pl.currency = "" THEN "INR" ELSE pl.currency,
                   receipt |-> pl.receipt]
         q == [Arrived(a, pl) EXCEPT !.pc = "done", !.order = order]
     IN  \E ok \in BOOLEAN :
           req' = [req EXCEPT ![r] =
                     IF ok
                     THEN [q EXCEPT !.response =
                             [status |-> 200,
                              body |-> [id |-> "order_1", amount |-> order.amount,
                                        currency |-> order.currency,
                                        receipt |-> order.receipt]]]
                     ELSE [q EXCEPT !.response = ErrorResponse("Failed to create order")]]
  /\ UNCHANGED <<learnVars, resolveVars, hook, payments, subscriptions, profiles, now, ticks>>

\* case 'create_order': the order is created at the gateway only; the
\* response is the gateway's order (currency = 'INR' when none is given).
CreateOrder(r, a, pl) ==
  /\ Arrive(r, a, pl)
  /\ a = "create_order"
  /\ LET order == [amount |-> pl.amount * 100,
                   currency |-> IF pl.currency = "" THEN "INR" ELSE pl.currency,
                   receipt |-> pl.receipt]
         q == [Arrived(a, pl) EXCEPT !.pc = "done", !.order = order]
     IN  \E ok \in BOOLEAN :
           req' = [req EXCEPT ![r] =
                     IF ok
                     THEN [q EXCEPT !.response =
                             [status |-> 200,
                              body |-> [id |-> "order_1", amount |-> order.amount,
                                        currency |-> order.currency,
                                        receipt |-> order.receipt]]]
                     ELSE [q EXCEPT !.response = ErrorResponse("Failed to create order")]]
  /\ UNCHANGED <<learnVars, resolveVars, hook, payments, subscriptions, profiles, now, ticks>>

\* default: throw new Error('Invalid action')
UnknownAction(r, a, pl) ==
  /\ Arrive(r, a, pl)
  /\ a \notin {"create_order", "verify_payment"}
  /\ FailArrived(r, a, pl, "Invalid action")
  /\ UNCHANGED <<learnVars, resolveVars, hook, payments, subscriptions, profiles, now, ticks>>

\* Variant: the comparison ignores letter case.
SignatureMatches_nocase(expectedSignature, razorpay_signature) ==
  UpperCase(expectedSignature) = UpperCase(razorpay_signature)

\* Variant: the comparison looks at the first two characters only.
SignatureMatches_prefix(expectedSignature, razorpay_signature) ==
  SubSeq(expectedSignature, 1, 2) = SubSeq(razorpay_signature, 1, 2)

\* expectedSignature !== razorpay_signature, negated
SignatureMatches(expectedSignature, razorpay_signature) ==
  expectedSignature = razorpay_signature

\* case 'verify_payment', up to the profile call: input validation,
\* identity resolution, signature verification.
VerifySignature(r, a, pl) ==
  /\ Arrive(r, a, pl)
  /\ a = "verify_payment"
  /\ IF pl.user_email = << >> \/ pl.user_id = << >>
     THEN FailArrived(r, a, pl, "Missing user email or ID in request")
     ELSE \E rnd \in RandomUUIDs :
            IF SignatureMatches(ExpectedSignature(Secret, pl.razorpay_order_id,
                                                  pl.razorpay_payment_id),
                                pl.razorpay_signature)
            THEN req' = [req EXCEPT ![r] =
                           [Arrived(a, pl) EXCEPT !.pc = "profile",
                              !.supabaseUserId =
                                PayGenerateConsistentUUID(pl.user_id, rnd).uuid]]
            ELSE FailArrived(r, a, pl, "Invalid payment signature")
  /\ UNCHANGED <<learnVars, resolveVars, hook, payments, subscriptions, profiles, now, ticks>>

\* supabase.rpc('get_or_create_user_profile', ...) inside its own try/catch:
\* an error is logged and the request goes on.
EnsureProfile(r) ==
  /\ req[r].pc = "profile"
  /\ LET pl == req[r].payload
     IN  \E fault \in BOOLEAN, rnd \in RandomUUIDs :
           profiles' = IF fault THEN profiles
                       ELSE GetOrCreateUserProfile(profiles, pl.user_id,
                              BeforeAt(pl.user_email), pl.user_email, Student, rnd)
  /\ req' = [req EXCEPT ![r].pc = "insert", ![r].profileCalls = @ + 1]
  /\ UNCHANGED <<learnVars, resolveVars, hook, payments, subscriptions, now, ticks, started>>

\* Variant: the table keeps one row per distinct payment (set semantics).
InsertRow_dedupe(P, row) == SetToBag(BagToSet(P) \cup {row})

\* insert(row): the table gains one row.
InsertRow(P, row) == P (+) SetToBag({row})

PaymentRow(q) ==
  [user_id |-> q.supabaseUserId,
   razorpay_order_id |-> q.payload.razorpay_order_id,
   razorpay_payment_id |-> q.payload.razorpay_payment_id,
   razorpay_signature |-> q.payload.razorpay_signature,
   amount |-> q.payload.amount, currency |-> q.payload.currency,
   plan_type |-> q.payload.plan_type, status |-> "completed"]

\* Variant: a failed insert is logged and the handler goes on to the upsert.
InsertPayment_continue(r) ==
  /\ req[r].pc = "insert"
  /\ \E fault \in BOOLEAN :
       /\ payments' = IF fault THEN payments
                      ELSE InsertRow(payments, PaymentRow(req[r]))
       /\ req' = [req EXCEPT ![r].pc = "upsert",
                    ![r].inserted = IF fault THEN @ ELSE @ + 1,
                    ![r].subscriptionEnd = ToISOString(SetMonthPlusOne(now)),
                    ![r].periodStart = ToISOString(now)]
  /\ UNCHANGED <<learnVars, resolveVars, hook, subscriptions, profiles, now, ticks, started>>

\* supabase.from('payments').insert(...); on success the handler computes
\* the subscription period before it issues the upsert. Its new Date() reads
\* lie in one synchronous stretch: one reading at the clock's resolution.
InsertPayment(r) ==
  /\ req[r].pc = "insert"
  /\ \E fault \in BOOLEAN :
       IF fault
       THEN /\ Fail(r, "Failed to store payment record")
            /\ UNCHANGED payments
       ELSE /\ payments' = InsertRow(payments, PaymentRow(req[r]))
            /\ req' = [req EXCEPT ![r].pc = "upsert", ![r].inserted = @ + 1,
                         ![r].subscriptionEnd = ToISOString(SetMonthPlusOne(now)),
                         ![r].periodStart = ToISOString(now)]
  /\ UNCHANGED <<learnVars, resolveVars, hook, subscriptions, profiles, now, ticks, started>>

SubscriptionRow(q) ==
  [user_id |-> q.supabaseUserId, plan_type |-> q.payload.plan_type,
   status |-> "active", current_period_start |-> q.periodStart,
   current_period_end |-> q.subscriptionEnd, was_granted |-> FALSE,
   updated_at |-> q.periodStart]

\* Variant: on conflict the period end already stored is kept.
Upsert_keepEnd(S, row) ==
  LET old == {x \in S : x.user_id = row.user_id /\ ~x.was_granted}
  IN  {x \in S : x.user_id # row.user_id}
        \cup {IF old = {} THEN row
              ELSE [row EXCEPT !.current_period_end =
                                 (CHOOSE x \in old : TRUE).current_period_end]}

\* Variant: no conflict target, the row is added next to the old one.
Upsert_append(S, row) == S \cup {row}

\* upsert(row, { onConflict: 'user_id' })
Upsert(S, row) == {x \in S : x.user_id # row.user_id} \cup {row}

SuccessResponse ==
  [status |-> 200,
   body |-> [success |-> TRUE,
             message |-> "Payment verified and subscription activated"]]

\* Variant: a failed upsert is logged and the success response is sent.
UpsertSubscription_swallow(r) ==
  /\ req[r].pc = "upsert"
  /\ \E fault \in BOOLEAN :
       /\ subscriptions' = IF fault THEN subscriptions
                           ELSE Upsert(subscriptions, SubscriptionRow(req[r]))
       /\ req' = [req EXCEPT ![r].pc = "done",
                    ![r].upserted = IF fault THEN @ ELSE @ + 1,
                    ![r].response = SuccessResponse]
  /\ UNCHANGED <<learnVars, resolveVars, hook, payments, profiles, now, ticks, started>>

\* supabase.from('user_subscriptions').upsert(...), then the success response.
UpsertSubscription(r) ==
  /\ req[r].pc = "upsert"
  /\ \E fault \in BOOLEAN :
       IF fault
       THEN /\ Fail(r, "Failed to manage subscription")
            /\ UNCHANGED subscriptions
       ELSE /\ subscriptions' = Upsert(subscriptions, SubscriptionRow(req[r]))
            /\ req' = [req EXCEPT ![r].pc = "done", ![r].upserted = @ + 1,
                         ![r].response = SuccessResponse]
  /\ UNCHANGED <<learnVars, resolveVars, hook, payments, profiles, now, ticks, started>>

\* The response has been sent; the request's locals are gone.
Return(r) ==
  /\ req[r].pc = "done"
  /\ req' = [req EXCEPT ![r] = IdleReq]
  /\ UNCHANGED <<learnVars, resolveVars, hook, payments, subscriptions, profiles, now, ticks, started>>

\* A day passes.
Tick ==
  /\ ticks < MaxTicks
  /\ ticks' = ticks + 1
  /\ now' = MakeDate(now.y, now.m, now.d + 1)
  /\ UNCHANGED <<learnVars, resolveVars, hook, req, payments, subscriptions, profiles, started>>

NextPay ==
  \/ \E r \in Reqs :
       \/ \E q \in SagaRequests :
            CredentialsMissing(r, q[1], q[2]) \/ VerifySignature(r, q[1], q[2])
       \/ EnsureProfile(r)
       \/ InsertPayment(r)
       \/ UpsertSubscription(r)
  \/ Tick

\* The concurrent run: every slot serves one request and keeps its response.
SpecPay == InitPay /\ [][NextPay]_vars

\* The one-at-a-time run: slot 1 only, every kind of request; the slot is
\* taken again once its response has been returned.
NextSeq ==
  \/ \E q \in SeqRequests :
       \/ CredentialsMissing(1, q[1], q[2])
       \/ CreateOrder(1, q[1], q[2])
       \/ UnknownAction(1, q[1], q[2])
       \/ VerifySignature(1, q[1], q[2])
  \/ EnsureProfile(1)
  \/ InsertPayment(1)
  \/ UpsertSubscription(1)
  \/ Return(1)

SpecSeq == InitPay /\ [][NextSeq]_vars

\* ---------------------------------------------- learning edge function
\* --- Number arithmetic of the scorer: IEEE 754 binary64 ---
\* A positive double is [m |-> 53 bits, most significant first and leading
\* bit 1, e |-> exponent of the leading bit]; its value is m * 2^(e - 52).
MaxQuestions == 40    \* largest canonical question set of the scoring run
MantissaBits == 53
IntegerBits == 8      \* bits kept for the integer part of a quotient
FractionBits == 64    \* bits computed for its fraction
LimbBits == 12
LimbBase == 4096

Zeros(k) == [i \in 1..k |-> 0]
ToBits(n, w) == [i \in 1..w |-> (n \div (2 ^ (w - i))) % 2]

RECURSIVE BitsToInt(_)
BitsToInt(b) ==
  IF b = << >> THEN 0 ELSE 2 * BitsToInt(SubSeq(b, 1, Len(b) - 1)) + b[Len(b)]

\* 2^j mod n for j < 80 and n < 2^15.
Pow2Mod(j, n) ==
  LET x == TwoTo16 % n
      x2 == (x * x) % n
      a == j \div 16
      hi == IF a = 0 THEN 1 % n ELSE IF a = 1 THEN x ELSE IF a = 2 THEN x2
            ELSE IF a = 3 THEN (x2 * x) % n ELSE (x2 * x2) % n
  IN  (hi * ((2 ^ (j % 16)) % n)) % n

\* The binary expansion of a / n: IntegerBits bits of the integer part, then
\* FractionBits bits of the fraction, and whether anything is left beyond.
Quotient(a, n) ==
  LET rem(j) == ((a % n) * Pow2Mod(j, n)) % n      \* (a * 2^j) mod n
  IN  [q |-> ToBits(a \div n, IntegerBits)
               \o [j \in 1..FractionBits |-> IF 2 * rem(j - 1) >= n THEN 1 ELSE 0],
       inexact |-> rem(FractionBits) # 0]

\* Index of the first 1 bit.
LeadingOne(b) == CHOOSE i \in 1..Len(b) : b[i] = 1 /\ \A j \in 1..(i - 1) : b[j] = 0

\* Round to nearest, ties to even: b holds the digits from the leading 1 on
\* (at least 54 of them), sticky tells whether anything non-zero lies beyond
\* b, e is the exponent of the leading bit.
RoundNearestEven(b, sticky, e) ==
  LET m == SubSeq(b, 1, MantissaBits)
      rest == sticky \/ \E k \in (MantissaBits + 2)..Len(b) : b[k] = 1
      up == b[MantissaBits + 1] = 1 /\ (rest \/ m[MantissaBits] = 1)
      zeros == {i \in 1..MantissaBits : m[i] = 0}
      z == CHOOSE i \in zeros : \A j \in zeros : j <= i
  IN  IF ~up THEN [m |-> m, e |-> e]
      ELSE IF zeros = {} THEN [m |-> <<1>> \o Zeros(MantissaBits - 1), e |-> e + 1]
      ELSE [m |-> [i \in 1..MantissaBits |->
                     IF i < z THEN m[i] ELSE IF i = z THEN 1 ELSE 0],
            e |-> e]

\* correctAnswers / totalQuestions, both positive integers.
NumberDivide(a, n) ==
  LET d == Quotient(a, n)
      p == LeadingOne(d.q)
  IN  RoundNearestEven(SubSeq(d.q, p, Len(d.q)), d.inexact, IntegerBits - p)

\* x * 100: the exact product of the mantissa (below 2^60) in five limbs of
\* twelve bits, then rounded.
NumberTimes100(x) ==
  LET b == Zeros(5 * LimbBits - MantissaBits) \o x.m
      limb(k) == BitsToInt(SubSeq(b, LimbBits * (k - 1) + 1, LimbBits * k))
      t5 == limb(5) * 100
      t4 == limb(4) * 100 + (t5 \div LimbBase)
      t3 == limb(3) * 100 + (t4 \div LimbBase)
      t2 == limb(2) * 100 + (t3 \div LimbBase)
      t1 == limb(1) * 100 + (t2 \div LimbBase)
      s == ToBits(t1, LimbBits) \o ToBits(t2 % LimbBase, LimbBits)
             \o ToBits(t3 % LimbBase, LimbBits) \o ToBits(t4 % LimbBase, LimbBits)
             \o ToBits(t5 % LimbBase, LimbBits)
      p == LeadingOne(s)
  IN  RoundNearestEven(SubSeq(s, p, Len(s)), FALSE, (x.e + 8) - p)

\* Math.round: the nearest integer, ties towards +Infinity.
MathRound(x) ==
  IF x.e < -1 THEN 0
  ELSE IF x.e = -1 THEN 1
  ELSE BitsToInt(SubSeq(x.m, 1, x.e + 1)) + x.m[x.e + 2]

\* Math.round((correctAnswers / totalQuestions) * 100)
Score(correctAnswers, totalQuestions) ==
  IF correctAnswers = 0 THEN 0
  ELSE MathRound(NumberTimes100(NumberDivide(correctAnswers, totalQuestions)))

\* --- requests and tables of the learning function ---
PASSING_SCORE == 70
CourseA == "course-a"
CourseB == "course-b"
CourseNameA == "Course A"
NullId == 0           \* null / undefined where a row id is expected
NoRow == [none |-> TRUE]

\* A row id the database generates (rows are never deleted).
NewId(T) == Cardinality(T) + 1

\* .maybeSingle() / .single(): the row when exactly one row matches; with
\* several rows (and, for single, with none) the call answers with an error
\* and data null.
MaybeSingle(rows) == IF Cardinality(rows) = 1 THEN CHOOSE x \in rows : TRUE ELSE NoRow

IdleLreq ==
  [pc |-> "idle", caller |-> "", action |-> "", body |-> NoPayload,
   supabaseUserId |-> << >>, assessment |-> NoPayload, existingLearning |-> NoRow,
   params |-> NoPayload, tracking |-> "", defaultCertificate |-> NullId,
   faults |-> {}, profileCalls |-> 0, learningWrites |-> 0, templatesCreated |-> 0,
   inserted |-> 0, certificateResult |-> NoPayload, response |-> NoResponse]

\* result = { ...assessmentResult, saved, certificateGenerated, certificateId }
\* in the success envelope.
AssessmentResponse(assessment, certificateResult) ==
  [status |-> 200,
   body |-> [success |-> TRUE,
             data |-> [totalQuestions |-> assessment.totalQuestions,
                       correctAnswers |-> assessment.correctAnswers,
                       score |-> assessment.score,
                       passed |-> assessment.passed,
                       answers |-> assessment.answers,
                       saved |-> TRUE,
                       certificateGenerated |-> certificateResult.success,
                       certificateId |->
                         IF "certificateId" \in DOMAIN certificateResult
                         THEN certificateResult.certificateId ELSE NullId]]]

\* The catch block of Deno.serve.
LearnErrorResponse(msg) == [status |-> 400, body |-> [success |-> FALSE, error |-> msg]]

\* --- generateCertificate ---
\* generateCertificate returns: a direct caller gets the result; inside
\* evaluateAssessment the handler assembles its response without a further
\* suspension.
Finish(q, result) ==
  [q EXCEPT !.pc = "done", !.certificateResult = result,
            !.response = IF q.caller = "handler"
                         THEN AssessmentResponse(q.assessment, result) ELSE @]

\* Variant: the threshold is not tested.
EnterGenerateCertificate_nothreshold(q, params) ==
  [q EXCEPT !.params = params,
            !.pc = IF params.clerkUserId # << >> THEN "track" ELSE "check"]

\* The call up to its first await: the threshold test.
EnterGenerateCertificate(q, params) ==
  IF params.score < PASSING_SCORE
  THEN Finish([q EXCEPT !.params = params],
              [success |-> FALSE, message |-> "Score below passing threshold"])
  ELSE [q EXCEPT !.params = params,
                 !.pc = IF params.clerkUserId # << >> THEN "track" ELSE "check"]

CertificateParams(userId, name, courseId, courseName, score, clerkUserId) ==
  [userId |-> userId, name |-> name, courseId |-> courseId,
   courseName |-> courseName, score |-> score, clerkUserId |-> clerkUserId]

\* generateCertificate called on its own.
GenerateCertificate(r, params) ==
  /\ lreq[r].pc = "idle"
  /\ started < MaxStarted
  /\ started' = started + 1
  /\ lreq' = [lreq EXCEPT ![r] =
                EnterGenerateCertificate([IdleLreq EXCEPT !.caller = "direct"], params)]
  /\ UNCHANGED <<resolveVars, hook, req, payments, subscriptions, profiles, now, ticks,
                 user_certificates, certificates, course_certificate_management,
                 user_learning, course_questions>>

\* public.update_course_certificate_management: the table after the call
\* (on conflict the stored course_name stays).
UpdateCourseCertificateManagement(C, p_clerk_user_id, p_course_id, p_course_name, p_course_complete, p_assessment_score) ==
  LET old == {x \in C : x.clerk_user_id = p_clerk_user_id /\ x.course_id = p_course_id}
      row == [clerk_user_id |-> p_clerk_user_id, course_id |-> p_course_id,
              course_name |-> IF old = {} THEN p_course_name
                              ELSE (CHOOSE x \in old : TRUE).course_name,
              course_complete |-> p_course_complete,
              assessment_pass |-> p_assessment_score >= 70,
              assessment_score |-> p_assessment_score,
              completion_date |->
                IF p_course_complete /\ p_assessment_score >= 70
                THEN ToISOString(now) ELSE NoDate]
  IN  (C \ old) \cup {row}

\* Variant: a thrown exception reaches the function's outer catch.
UpdateCertificateManagement_propagate(r) ==
  /\ lreq[r].pc = "track"
  /\ \E outcome \in {"ok", "error", "thrown"} :
       /\ course_certificate_management' =
            IF outcome = "ok"
            THEN UpdateCourseCertificateManagement(course_certificate_management,
                   lreq[r].params.clerkUserId, lreq[r].params.courseId,
                   lreq[r].params.courseName, TRUE, lreq[r].params.score)
            ELSE course_certificate_management
       /\ lreq' = [lreq EXCEPT ![r] =
                     IF outcome = "thrown"
                     THEN Finish([@ EXCEPT !.tracking = outcome,
                                           !.faults = @ \cup {"track"}],
                                 [success |-> FALSE,
                                  message |-> "Certificate generation failed"])
                     ELSE [@ EXCEPT !.pc = "check", !.tracking = outcome,
                                    !.faults = IF outcome = "ok" THEN @
                                               ELSE @ \cup {"track"}]]
  /\ UNCHANGED <<resolveVars, hook, req, payments, subscriptions, profiles, now, ticks,
                 started, user_certificates, certificates, user_learning,
                 course_questions>>

\* supabase.rpc('update_course_certificate_management', ...): an error
\* result is logged, a thrown exception is caught and logged.
UpdateCertificateManagement(r) ==
  /\ lreq[r].pc = "track"
  /\ \E outcome \in {"ok", "error", "thrown"} :
       /\ course_certificate_management' =
            IF outcome = "ok"
            THEN UpdateCourseCertificateManagement(course_certificate_management,
                   lreq[r].params.clerkUserId, lreq[r].params.courseId,
                   lreq[r].params.courseName, TRUE, lreq[r].params.score)
            ELSE course_certificate_management
       /\ lreq' = [lreq EXCEPT ![r].pc = "check", ![r].tracking = outcome,
                     ![r].faults = IF outcome = "ok" THEN @ ELSE @ \cup {"track"}]
  /\ UNCHANGED <<resolveVars, hook, req, payments, subscriptions, profiles, now, ticks,
                 started, user_certificates, certificates, user_learning,
                 course_questions>>

ActiveCertificates(userId, courseId) ==
  {x \in user_certificates :
     x.user_id = userId /\ x.course_id = courseId /\ x.is_active}

\* Variant: the existence check never finds a row.
CheckExisting_blind(r) ==
  /\ lreq[r].pc = "check"
  /\ lreq' = [lreq EXCEPT ![r].pc = "template"]
  /\ UNCHANGED <<resolveVars, hook, req, payments, subscriptions, profiles, now, ticks,
                 started, user_certificates, certificates,
                 course_certificate_management, user_learning, course_questions>>

\* select id from user_certificates ... .maybeSingle(); only data is read, so
\* a failed select looks like "no certificate".
CheckExisting(r) ==
  /\ lreq[r].pc = "check"
  /\ \E fault \in BOOLEAN :
       LET existingCert ==
             IF fault THEN NoRow
             ELSE MaybeSingle(ActiveCertificates(lreq[r].params.userId,
                                                 lreq[r].params.courseId))
       IN  lreq' = [lreq EXCEPT ![r] =
                      IF existingCert # NoRow
                      THEN Finish(@, [success |-> TRUE,
                                      certificateId |-> existingCert.id,
                                      message |-> "Certificate already exists"])
                      ELSE [@ EXCEPT !.pc = "template",
                                     !.faults = IF fault THEN @ \cup {"check"} ELSE @]]
  /\ UNCHANGED <<resolveVars, hook, req, payments, subscriptions, profiles, now, ticks,
                 started, user_certificates, certificates,
                 course_certificate_management, user_learning, course_questions>>

\* select * from certificates where is_active and certificate_type =
\* 'completion' .single()
SelectTemplate(r) ==
  /\ lreq[r].pc = "template"
  /\ \E fault \in BOOLEAN :
       LET defaultCertificate ==
             IF fault THEN NoRow
             ELSE MaybeSingle({x \in certificates :
                                 x.is_active /\ x.certificate_type = "completion"})
       IN  lreq' = [lreq EXCEPT ![r] =
                      IF defaultCertificate = NoRow
                      THEN [@ EXCEPT !.pc = "create",
                                     !.faults = IF fault THEN @ \cup {"template"} ELSE @]
                      ELSE [@ EXCEPT !.pc = "save",
                                     !.defaultCertificate = defaultCertificate.id]]
  /\ UNCHANGED <<resolveVars, hook, req, payments, subscriptions, profiles, now, ticks,
                 started, user_certificates, certificates,
                 course_certificate_management, user_learning, course_questions>>

TemplateRow(id) ==
  [id |-> id, title |-> "Course Completion Certificate",
   certificate_type |-> "completion", is_active |-> TRUE, auto_issue |-> TRUE,
   min_score |-> PASSING_SCORE]

\* insert into certificates ... .select().single(), then
\* "defaultCertificate = newCertificate": defaultCertificate is a const
\* binding, so the assignment throws a TypeError, which the function's catch
\* turns into a failure result.
CreateTemplate(r) ==
  /\ lreq[r].pc = "create"
  /\ \E fault \in BOOLEAN :
       IF fault
       THEN /\ lreq' = [lreq EXCEPT ![r] =
                          Finish([@ EXCEPT !.faults = @ \cup {"create"}],
                                 [success |-> FALSE,
                                  message |-> "Failed to create certificate template"])]
            /\ UNCHANGED certificates
       ELSE /\ certificates' = certificates \cup {TemplateRow(NewId(certificates))}
            /\ lreq' = [lreq EXCEPT ![r] =
                          Finish([@ EXCEPT !.templatesCreated = @ + 1],
                                 [success |-> FALSE,
                                  message |-> "Assignment to constant variable."])]
  /\ UNCHANGED <<resolveVars, hook, req, payments, subscriptions, profiles, now, ticks,
                 started, user_certificates, course_certificate_management,
                 user_learning, course_questions>>

\* The row of user_certificates (the verification code is left out: no
\* step reads it).
CertificateRow(id, q) ==
  [id |-> id, user_id |-> q.params.userId, clerk_user_id |-> q.params.clerkUserId,
   certificate_id |-> q.defaultCertificate, course_id |-> q.params.courseId,
   score |-> q.params.score, course_name |-> q.params.courseName,
   user_name |-> q.params.name, is_active |-> TRUE]

\* insert into user_certificates ... .select('id').single(); a save error is
\* thrown and the function's catch turns it into a failure result.
SaveCertificate(r) ==
  /\ lreq[r].pc = "save"
  /\ \E fault \in BOOLEAN :
       IF fault
       THEN /\ lreq' = [lreq EXCEPT ![r] =
                          Finish([@ EXCEPT !.faults = @ \cup {"save"}],
                                 [success |-> FALSE, message |-> "insert failed"])]
            /\ UNCHANGED user_certificates
       ELSE /\ user_certificates' =
                 user_certificates
                   \cup {CertificateRow(NewId(user_certificates), lreq[r])}
            /\ lreq' = [lreq EXCEPT ![r] =
                          Finish([@ EXCEPT !.inserted = @ + 1],
                                 [success |-> TRUE,
                                  certificateId |-> NewId(user_certificates),
                                  message |-> "Certificate generated successfully"])]
  /\ UNCHANGED <<resolveVars, hook, req, payments, subscriptions, profiles, now, ticks,
                 started, certificates, course_certificate_management,
                 user_learning, course_questions>>

\* --- generateCertificate on its own: concurrent calls, and calls in sequence ---
LearnIdOf(clerkUserId) == LearnGenerateConsistentUUID(clerkUserId, << >>).uuid

IssueParams ==
  { CertificateParams(LearnIdOf(UserT), Student, CourseA, CourseNameA, 100, UserT),
    CertificateParams(LearnIdOf(UserT), Student, CourseB, CourseNameA, 70, << >>),
    CertificateParams(LearnIdOf(UserT), Student, CourseA, CourseNameA, 69, UserT) }

\* The seed data holds one active completion template; an administrator may
\* have deactivated it.
InitIssue ==
  /\ externalId = << >>
  /\ calls = [s \in Slots |-> None]
  /\ hook = Unmounted
  /\ req = [r \in Reqs |-> IdleReq]
  /\ payments = EmptyBag
  /\ subscriptions = {}
  /\ profiles = {}
  /\ now = [y |-> 2024, m |-> 0, d |-> 31]
  /\ ticks = 0
  /\ started = 0
  /\ lreq = [r \in Reqs |-> IdleLreq]
  /\ user_certificates = {}
  /\ certificates \in {{}, {TemplateRow(1)}}
  /\ course_certificate_management = {}
  /\ user_learning = {}
  /\ course_questions = {}

IssueStep(r) ==
  \/ UpdateCertificateManagement(r)
  \/ CheckExisting(r)
  \/ SelectTemplate(r)
  \/ CreateTemplate(r)
  \/ SaveCertificate(r)

NextIssue ==
  \E r \in Reqs : (\E p \in IssueParams : GenerateCertificate(r, p)) \/ IssueStep(r)

SpecIssue == InitIssue /\ [][NextIssue]_vars

\* Calls in sequence: a call starts only when no other call is in flight,
\* slot after slot.
NextIssueSeq ==
  \E r \in Reqs :
    \/ /\ \A q \in Reqs : lreq[q].pc = (IF q < r THEN "done" ELSE "idle")
       /\ \E p \in IssueParams : GenerateCertificate(r, p)
    \/ IssueStep(r)

SpecIssueSeq == InitIssue /\ [][NextIssueSeq]_vars


\* --- action evaluateAssessment ---
StudentName == <<83, 116, 117, 100, 101, 110, 116>>     \* 'Student'
TempDomain == <<64, 116, 101, 109, 112, 46, 99, 111, 109>>   \* '@temp.com'

\* The parsed request body.  A missing string field is "" or << >>;
\* questions and answersGiven say whether those arrays were sent.
AssessBody(clerkUserId, courseId, courseName, answersGiven, answers) ==
  [action |-> "evaluateAssessment", clerkUserId |-> clerkUserId,
   courseId |-> courseId, courseName |-> courseName, totalModules |-> 0,
   questions |-> TRUE, answersGiven |-> answersGiven, answers |-> answers]

Answer(questionId, selectedAnswer) ==
  [questionId |-> questionId, selectedAnswer |-> selectedAnswer]

\* Rows of course_questions: question i of a course, its correct choice.
Question(courseId, i) ==
  [id |-> i, course_id |-> courseId, correct_answer |-> (i % 4) + 1,
   is_active |-> TRUE, order_index |-> i]
Questions(courseId, n) == {Question(courseId, i) : i \in 1..n}

\* answers.map(...) with the correctAnswers counter, then the score.
EvaluateAnswers(answers, courseQuestions) ==
  LET find(id) == {q \in courseQuestions : q.id = id}
      evaluatedAnswers ==
        [i \in 1..Len(answers) |->
           LET question == find(answers[i].questionId)
           IN  [questionId |-> answers[i].questionId,
                selectedAnswer |-> answers[i].selectedAnswer,
                isCorrect |->
                  /\ question # {}
                  /\ answers[i].selectedAnswer
                       = (CHOOSE q \in question : TRUE).correct_answer,
                correctAnswer |->
                  IF question # {} THEN (CHOOSE q \in question : TRUE).correct_answer
                  ELSE NullId]]
      correctAnswers ==
        Cardinality({i \in 1..Len(answers) : evaluatedAnswers[i].isCorrect})
      totalQuestions == Cardinality(courseQuestions)
      score == Score(correctAnswers, totalQuestions)
  IN  [totalQuestions |-> totalQuestions, correctAnswers |-> correctAnswers,
       score |-> score, passed |-> score >= 70, answers |-> evaluatedAnswers]

LearnFail(r, step, msg) ==
  lreq' = [lreq EXCEPT ![r].pc = "done", ![r].faults = @ \cup step,
                       ![r].response = LearnErrorResponse(msg)]

\* Variant: the fields of the action are not validated.
EvaluateAssessment_unvalidated(r, body) ==
  /\ lreq[r].pc = "idle"
  /\ started < MaxStarted
  /\ started' = started + 1
  /\ body.action = "evaluateAssessment"
  /\ \E rnd \in RandomUUIDs :
       LET q == [IdleLreq EXCEPT !.caller = "handler", !.action = body.action,
                                 !.body = body]
       IN  lreq' = [lreq EXCEPT ![r] =
             IF body.clerkUserId = << >>
             THEN [q EXCEPT !.pc = "done",
                            !.response = LearnErrorResponse("Clerk user ID is required")]
             ELSE [q EXCEPT !.pc = "profile",
                            !.supabaseUserId =
                              LearnGenerateConsistentUUID(body.clerkUserId, rnd).uuid]]
  /\ UNCHANGED <<resolveVars, hook, req, payments, subscriptions, profiles, now, ticks,
                 user_certificates, certificates, course_certificate_management,
                 user_learning, course_questions>>

\* Deno.serve up to the first await of case 'evaluateAssessment': req.json(),
\* the clerkUserId test, the resolver, the validation of the action's input.
EvaluateAssessment(r, body) ==
  /\ lreq[r].pc = "idle"
  /\ started < MaxStarted
  /\ started' = started + 1
  /\ body.action = "evaluateAssessment"
  /\ \E rnd \in RandomUUIDs :
       LET q == [IdleLreq EXCEPT !.caller = "handler", !.action = body.action,
                                 !.body = body]
       IN  lreq' = [lreq EXCEPT ![r] =
             IF body.clerkUserId = << >>
             THEN [q EXCEPT !.pc = "done",
                            !.response = LearnErrorResponse("Clerk user ID is required")]
             ELSE IF ~body.questions \/ ~body.answersGiven \/ body.courseId = ""
             THEN [q EXCEPT !.pc = "done",
                            !.supabaseUserId =
                              LearnGenerateConsistentUUID(body.clerkUserId, rnd).uuid,
                            !.response = LearnErrorResponse(
                              "Questions, answers, and courseId are required for assessment evaluation")]
             ELSE [q EXCEPT !.pc = "profile",
                            !.supabaseUserId =
                              LearnGenerateConsistentUUID(body.clerkUserId, rnd).uuid]]
  /\ UNCHANGED <<resolveVars, hook, req, payments, subscriptions, profiles, now, ticks,
                 user_certificates, certificates, course_certificate_management,
                 user_learning, course_questions>>

\* Variant: a failed profile call ends the request.
LearnEnsureProfile_abort(r) ==
  /\ lreq[r].pc = "profile"
  /\ \E fault \in BOOLEAN, rnd \in RandomUUIDs :
       /\ profiles' =
            IF fault THEN profiles
            ELSE GetOrCreateUserProfile(profiles, lreq[r].body.clerkUserId,
                   StudentName, lreq[r].body.clerkUserId \o TempDomain, Student, rnd)
       /\ lreq' = [lreq EXCEPT ![r].profileCalls = @ + 1,
                     ![r].pc = IF fault THEN "done"
                               ELSE CASE lreq[r].action = "fetch" -> "fselect"
                                      [] lreq[r].action = "update" -> "uselect"
                                      [] OTHER -> "questions",
                     ![r].response = IF fault THEN LearnErrorResponse("Profile creation failed")
                                     ELSE @,
                     ![r].faults = IF fault THEN @ \cup {"profile"} ELSE @]
  /\ UNCHANGED <<resolveVars, hook, req, payments, subscriptions, now, ticks, started,
                 user_certificates, certificates, course_certificate_management,
                 user_learning, course_questions>>

\* await supabase.rpc('get_or_create_user_profile', ...) in its try/catch,
\* the first await of fetch, update and evaluateAssessment alike; the result
\* is not looked at.
LearnEnsureProfile(r) ==
  /\ lreq[r].pc = "profile"
  /\ \E fault \in BOOLEAN, rnd \in RandomUUIDs :
       /\ profiles' =
            IF fault THEN profiles
            ELSE GetOrCreateUserProfile(profiles, lreq[r].body.clerkUserId,
                   StudentName, lreq[r].body.clerkUserId \o TempDomain, Student, rnd)
       /\ lreq' = [lreq EXCEPT ![r].profileCalls = @ + 1,
                     ![r].pc = CASE lreq[r].action = "fetch" -> "fselect"
                                 [] lreq[r].action = "update" -> "uselect"
                                 [] OTHER -> "questions",
                     ![r].faults = IF fault THEN @ \cup {"profile"} ELSE @]
  /\ UNCHANGED <<resolveVars, hook, req, payments, subscriptions, now, ticks, started,
                 user_certificates, certificates, course_certificate_management,
                 user_learning, course_questions>>

\* Variant: inactive questions are scored too.
FetchQuestions_inactive(r) ==
  /\ lreq[r].pc = "questions"
  /\ \E fault \in BOOLEAN :
       LET courseQuestions ==
             {q \in course_questions :
                q.course_id = lreq[r].body.courseId}
       IN  IF fault
           THEN LearnFail(r, {"questions"}, "Failed to fetch course questions")
           ELSE IF courseQuestions = {}
           THEN LearnFail(r, {}, "No questions found for this course")
           ELSE lreq' = [lreq EXCEPT ![r].pc = "lselect",
                           ![r].assessment =
                             EvaluateAnswers(lreq[r].body.answers, courseQuestions)]
  /\ UNCHANGED <<resolveVars, hook, req, payments, subscriptions, profiles, now, ticks,
                 started, user_certificates, certificates,
                 course_certificate_management, user_learning, course_questions>>

\* select * from course_questions where course_id = ... and is_active, then
\* the scoring of the submitted answers.
FetchQuestions(r) ==
  /\ lreq[r].pc = "questions"
  /\ \E fault \in BOOLEAN :
       LET courseQuestions ==
             {q \in course_questions :
                q.course_id = lreq[r].body.courseId /\ q.is_active}
       IN  IF fault
           THEN LearnFail(r, {"questions"}, "Failed to fetch course questions")
           ELSE IF courseQuestions = {}
           THEN LearnFail(r, {}, "No questions found for this course")
           ELSE lreq' = [lreq EXCEPT ![r].pc = "lselect",
                           ![r].assessment =
                             EvaluateAnswers(lreq[r].body.answers, courseQuestions)]
  /\ UNCHANGED <<resolveVars, hook, req, payments, subscriptions, profiles, now, ticks,
                 started, user_certificates, certificates,
                 course_certificate_management, user_learning, course_questions>>

\* select * from user_learning where user_id = ... and course_id = ...
\* .maybeSingle(); only data is read.
SelectLearning(r) ==
  /\ lreq[r].pc = "lselect"
  /\ \E fault \in BOOLEAN :
       LET existingLearning ==
             IF fault THEN NoRow
             ELSE MaybeSingle({x \in user_learning :
                                 /\ x.user_id = lreq[r].supabaseUserId
                                 /\ x.course_id = lreq[r].body.courseId})
       IN  lreq' = [lreq EXCEPT ![r].existingLearning = existingLearning,
                      ![r].pc = IF existingLearning # NoRow THEN "lupdate"
                                ELSE "linsert",
                      ![r].faults = IF fault THEN @ \cup {"lselect"} ELSE @]
  /\ UNCHANGED <<resolveVars, hook, req, payments, subscriptions, profiles, now, ticks,
                 started, user_certificates, certificates,
                 course_certificate_management, user_learning, course_questions>>

\* Variant: the course counts as completed after any attempt.
WithAssessment_completed(row, q) ==
  [assessment_attempted |-> TRUE, assessment_passed |-> q.assessment.passed,
   assessment_score |-> q.assessment.score,
   last_assessment_score |-> q.assessment.score,
   assessment_completed_at |-> ToISOString(now),
   is_completed |-> TRUE,
   total_modules_count |-> q.body.totalModules] @@ row

\* assessmentData spread over a row.
WithAssessment(row, q) ==
  [assessment_attempted |-> TRUE, assessment_passed |-> q.assessment.passed,
   assessment_score |-> q.assessment.score,
   last_assessment_score |-> q.assessment.score,
   assessment_completed_at |-> ToISOString(now),
   is_completed |-> q.assessment.passed,
   total_modules_count |-> q.body.totalModules] @@ row

\* After the LearningRecord is written: the certificate branch is taken when
\* passed and a course name was sent; otherwise the response goes out.
AfterLearning(q) ==
  IF q.assessment.passed /\ q.body.courseName # ""
  THEN [q EXCEPT !.pc = "pselect", !.learningWrites = @ + 1]
  ELSE Finish([q EXCEPT !.learningWrites = @ + 1],
              [success |-> FALSE, message |-> "Not applicable"])

\* update user_learning set ... where id = existingLearning.id
UpdateLearning(r) ==
  /\ lreq[r].pc = "lupdate"
  /\ \E fault \in BOOLEAN :
       IF fault
       THEN /\ LearnFail(r, {"lwrite"}, "Failed to update assessment results")
            /\ UNCHANGED user_learning
       ELSE /\ user_learning' =
                 { IF x.id = lreq[r].existingLearning.id
                   THEN WithAssessment(
                          [id |-> x.id, user_id |-> x.user_id,
                           course_id |-> x.course_id,
                           progress |-> lreq[r].existingLearning.progress,
                           completed_modules_count |->
                             lreq[r].existingLearning.completed_modules_count,
                           updated_at |-> ToISOString(now)], lreq[r])
                   ELSE x : x \in user_learning }
            /\ lreq' = [lreq EXCEPT ![r] = AfterLearning(@)]
  /\ UNCHANGED <<resolveVars, hook, req, payments, subscriptions, profiles, now, ticks,
                 started, user_certificates, certificates,
                 course_certificate_management, course_questions>>

\* insert into user_learning (...)
InsertLearning(r) ==
  /\ lreq[r].pc = "linsert"
  /\ \E fault \in BOOLEAN :
       IF fault
       THEN /\ LearnFail(r, {"lwrite"}, "Failed to save assessment results")
            /\ UNCHANGED user_learning
       ELSE /\ user_learning' =
                 user_learning
                   \cup {WithAssessment(
                           [id |-> NewId(user_learning),
                            user_id |-> lreq[r].supabaseUserId,
                            course_id |-> lreq[r].body.courseId,
                            progress |-> << >>, completed_modules_count |-> 0,
                            updated_at |-> NoDate], lreq[r])}
            /\ lreq' = [lreq EXCEPT ![r] = AfterLearning(@)]
  /\ UNCHANGED <<resolveVars, hook, req, payments, subscriptions, profiles, now, ticks,
                 started, user_certificates, certificates,
                 course_certificate_management, course_questions>>

\* select full_name, email from profiles where id = supabaseUserId
\* .maybeSingle(); with a full name the issuer is called.  An error result
\* leaves profileData empty; an exception is caught around the block.
SelectProfile(r) ==
  /\ lreq[r].pc = "pselect"
  /\ \E outcome \in {"ok", "error", "thrown"} :
       LET profileData ==
             IF outcome # "ok" THEN NoRow
             ELSE MaybeSingle({p \in profiles : p.id = lreq[r].supabaseUserId})
           q == [lreq[r] EXCEPT !.faults = IF outcome # "ok" THEN @ \cup {"pselect"}
                                           ELSE @]
       IN  lreq' = [lreq EXCEPT ![r] =
             IF outcome = "thrown"
             THEN Finish(q, [success |-> FALSE,
                             message |-> "Certificate generation failed"])
             ELSE IF profileData # NoRow /\ profileData.full_name \notin {Null, << >>}
             THEN EnterGenerateCertificate(q,
                    CertificateParams(q.supabaseUserId, profileData.full_name,
                                      q.body.courseId, q.body.courseName,
                                      q.assessment.score, q.body.clerkUserId))
             ELSE Finish(q, [success |-> FALSE,
                             message |-> "No profile data available"])]
  /\ UNCHANGED <<resolveVars, hook, req, payments, subscriptions, profiles, now, ticks,
                 started, user_certificates, certificates,
                 course_certificate_management, user_learning, course_questions>>

\* The response has been sent; the request's locals are gone.
LearnReturn(r) ==
  /\ lreq[r].pc = "done"
  /\ lreq' = [lreq EXCEPT ![r] = IdleLreq]
  /\ UNCHANGED <<resolveVars, hook, req, payments, subscriptions, profiles, now, ticks,
                 started, user_certificates, certificates,
                 course_certificate_management, user_learning, course_questions>>

\* --- evaluateAssessment, one request at a time ---
\* Course A has two active questions; course B has one, withdrawn.
\* A profile the client application stored under the canonical id its own
\* resolver computes, with the user's real address.
ClientProfile(clerkUserId, email) ==
  [id |-> LearnIdOf(clerkUserId), full_name |-> BeforeAt(email), email |-> email,
   role |-> Student, auth_provider |-> Clerk]

AllCorrect(n) == [i \in 1..n |-> Answer(i, Question(CourseA, i).correct_answer)]

AssessBodies ==
  { AssessBody(UserT, CourseA, CourseNameA, TRUE, AllCorrect(2)),
    AssessBody(UserT, CourseA, CourseNameA, TRUE, AllCorrect(1)),
    AssessBody(UserT, CourseA, "", TRUE, AllCorrect(2)),
    AssessBody(UserT, CourseB, CourseNameA, TRUE, AllCorrect(2)),
    AssessBody(<< >>, CourseA, CourseNameA, TRUE, AllCorrect(2)),
    AssessBody(UserT, CourseA, CourseNameA, FALSE, << >>) }

InitAssess ==
  /\ externalId = << >>
  /\ calls = [s \in Slots |-> None]
  /\ hook = Unmounted
  /\ req = [r \in Reqs |-> IdleReq]
  /\ payments = EmptyBag
  /\ subscriptions = {}
  /\ profiles \in {{}, {ClientProfile(UserT, EmailT)}}
  /\ now = [y |-> 2024, m |-> 0, d |-> 31]
  /\ ticks = 0
  /\ started = 0
  /\ lreq = [r \in Reqs |-> IdleLreq]
  /\ user_certificates = {}
  /\ certificates \in {{}, {TemplateRow(1)}}
  /\ course_certificate_management = {}
  /\ user_learning = {}
  /\ course_questions =
       Questions(CourseA, 2) \cup {[Question(CourseB, 1) EXCEPT !.is_active = FALSE]}

NextAssess ==
  \/ \E body \in AssessBodies : EvaluateAssessment(1, body)
  \/ LearnEnsureProfile(1)
  \/ FetchQuestions(1)
  \/ SelectLearning(1)
  \/ UpdateLearning(1)
  \/ InsertLearning(1)
  \/ SelectProfile(1)
  \/ IssueStep(1)
  \/ LearnReturn(1)

SpecAssess == InitAssess /\ [][NextAssess]_vars

\* --- the scorer on courses of every size up to MaxQuestions ---
\* Answer sheets: the first k questions answered correctly, then optionally
\* a wrong answer to the next question, an answer to a question the course
\* does not have, and a second copy of the first answer.
AnswerSheet(n, k, extras) ==
  AllCorrect(k)
    \o (IF "wrong" \in extras /\ k < n
        THEN <<Answer(k + 1, ((k + 2) % 4) + 1)>> ELSE << >>)
    \o (IF "unknown" \in extras THEN <<Answer(0, 1)>> ELSE << >>)
    \o (IF "repeat" \in extras /\ k > 0 THEN SubSeq(AllCorrect(k), 1, 1) ELSE << >>)

ScoreBodies ==
  LET n == Cardinality(course_questions)
  IN  { AssessBody(UserT, CourseA, CourseNameA, TRUE, AnswerSheet(n, k, extras))
          : k \in 0..n, extras \in SUBSET {"wrong", "unknown", "repeat"} }

InitScore ==
  /\ externalId = << >>
  /\ calls = [s \in Slots |-> None]
  /\ hook = Unmounted
  /\ req = [r \in Reqs |-> IdleReq]
  /\ payments = EmptyBag
  /\ subscriptions = {}
  /\ profiles = {}
  /\ now = [y |-> 2024, m |-> 0, d |-> 31]
  /\ ticks = 0
  /\ started = 0
  /\ lreq = [r \in Reqs |-> IdleLreq]
  /\ user_certificates = {}
  /\ certificates = {TemplateRow(1)}
  /\ course_certificate_management = {}
  /\ user_learning = {}
  /\ \E n \in 1..MaxQuestions : course_questions = Questions(CourseA, n)

\* The run stops once the score is computed.
NextScore ==
  \/ /\ lreq[1].pc = "idle"
     /\ \E body \in ScoreBodies : EvaluateAssessment(1, body)
  \/ LearnEnsureProfile(1)
  \/ FetchQuestions(1)

SpecScore == InitScore /\ [][NextScore]_vars


\* --- actions fetch and update ---
Undefined == -1       \* a number the request does not carry; a null column

\* a || b on numbers and on progress objects (<< >> is the object {}).
OrNumber(a, b) == IF a \in {Undefined, 0} THEN b ELSE a
OrObject(a, b) == IF a = Null THEN b ELSE a

FetchBody(clerkUserId, courseId, totalModules) ==
  [action |-> "fetch", clerkUserId |-> clerkUserId, courseId |-> courseId,
   totalModules |-> totalModules]

\* data of an update request: each progress field under its two names.
UpdateBody(clerkUserId, courseId, progress, course_progress, completed_modules_count, completed_modules, total_modules_count, total_modules) ==
  [action |-> "update", clerkUserId |-> clerkUserId, courseId |-> courseId,
   progress |-> progress, course_progress |-> course_progress,
   completed_modules_count |-> completed_modules_count,
   completed_modules |-> completed_modules,
   total_modules_count |-> total_modules_count, total_modules |-> total_modules]

\* Deno.serve up to the switch: req.json(), the clerkUserId test, the resolver.
Accept(body, rnd) ==
  LET q == [IdleLreq EXCEPT !.caller = "handler", !.action = body.action,
                            !.body = body]
  IN  IF body.clerkUserId = << >>
      THEN [q EXCEPT !.pc = "done",
                     !.response = LearnErrorResponse("Clerk user ID is required")]
      ELSE [q EXCEPT !.pc = "profile",
                     !.supabaseUserId =
                       LearnGenerateConsistentUUID(body.clerkUserId, rnd).uuid]

\* The success envelope around the result of fetch and update.
ResultResponse(result) == [status |-> 200, body |-> [success |-> TRUE, data |-> result]]

\* newRecord of fetch and of update.
NewRecord(id, userId, courseId, progress, completed, total) ==
  [id |-> id, user_id |-> userId, course_id |-> courseId, progress |-> progress,
   completed_modules_count |-> completed, total_modules_count |-> total,
   assessment_attempted |-> FALSE, assessment_score |-> Undefined,
   last_assessment_score |-> 0, is_completed |-> FALSE,
   assessment_passed |-> FALSE, assessment_completed_at |-> NoDate,
   updated_at |-> NoDate]

LearningRows(userId, courseId) ==
  {x \in user_learning : x.user_id = userId /\ x.course_id = courseId}

\* A request with action 'fetch' arrives.
Fetch(r, body) ==
  /\ lreq[r].pc = "idle"
  /\ started < MaxStarted
  /\ started' = started + 1
  /\ body.action = "fetch"
  /\ \E rnd \in RandomUUIDs : lreq' = [lreq EXCEPT ![r] = Accept(body, rnd)]
  /\ UNCHANGED <<resolveVars, hook, req, payments, subscriptions, profiles, now, ticks,
                 user_certificates, certificates, course_certificate_management,
                 user_learning, course_questions>>

\* select * from user_learning where user_id = ... and course_id = ...
\* .maybeSingle(): several rows give no data and error PGRST116, which the
\* action lets pass; any other error is thrown.
FetchSelect(r) ==
  /\ lreq[r].pc = "fselect"
  /\ \E fault \in BOOLEAN :
       LET existingData ==
             MaybeSingle(LearningRows(lreq[r].supabaseUserId, lreq[r].body.courseId))
       IN  IF fault
           THEN LearnFail(r, {"fselect"}, "fetch error")
           ELSE lreq' = [lreq EXCEPT ![r] =
                  IF /\ existingData = NoRow
                     /\ lreq[r].body.totalModules # 0
                     /\ lreq[r].body.courseId # ""
                  THEN [@ EXCEPT !.pc = "finsert"]
                  ELSE [@ EXCEPT !.pc = "done", !.existingLearning = existingData,
                                 !.response = ResultResponse(existingData)]]
  /\ UNCHANGED <<resolveVars, hook, req, payments, subscriptions, profiles, now, ticks,
                 started, user_certificates, certificates,
                 course_certificate_management, user_learning, course_questions>>

\* insert into user_learning (newRecord) .select('*').single(); an error
\* makes the result null, the response is a success all the same.
FetchInsert(r) ==
  /\ lreq[r].pc = "finsert"
  /\ \E fault \in BOOLEAN :
       LET newRecord == NewRecord(NewId(user_learning), lreq[r].supabaseUserId,
                                  lreq[r].body.courseId, << >>, 0,
                                  lreq[r].body.totalModules)
       IN  /\ user_learning' = IF fault THEN user_learning
                               ELSE user_learning \cup {newRecord}
           /\ lreq' = [lreq EXCEPT ![r].pc = "done",
                         ![r].faults = IF fault THEN @ \cup {"finsert"} ELSE @,
                         ![r].learningWrites = IF fault THEN @ ELSE @ + 1,
                         ![r].response = ResultResponse(IF fault THEN NoRow
                                                        ELSE newRecord)]
  /\ UNCHANGED <<resolveVars, hook, req, payments, subscriptions, profiles, now, ticks,
                 started, user_certificates, certificates,
                 course_certificate_management, course_questions>>

\* A request with action 'update' arrives.
Update(r, body) ==
  /\ lreq[r].pc = "idle"
  /\ started < MaxStarted
  /\ started' = started + 1
  /\ body.action = "update"
  /\ \E rnd \in RandomUUIDs : lreq' = [lreq EXCEPT ![r] = Accept(body, rnd)]
  /\ UNCHANGED <<resolveVars, hook, req, payments, subscriptions, profiles, now, ticks,
                 user_certificates, certificates, course_certificate_management,
                 user_learning, course_questions>>

\* select id from user_learning where user_id = ... and course_id = ...
\* .maybeSingle(); only data is read.
UpdateSelect(r) ==
  /\ lreq[r].pc = "uselect"
  /\ \E fault \in BOOLEAN :
       LET checkData ==
             IF fault THEN NoRow
             ELSE MaybeSingle(LearningRows(lreq[r].supabaseUserId,
                                           lreq[r].body.courseId))
       IN  lreq' = [lreq EXCEPT ![r].existingLearning = checkData,
                      ![r].pc = IF checkData = NoRow THEN "uinsert" ELSE "uupdate",
                      ![r].faults = IF fault THEN @ \cup {"lselect"} ELSE @]
  /\ UNCHANGED <<resolveVars, hook, req, payments, subscriptions, profiles, now, ticks,
                 started, user_certificates, certificates,
                 course_certificate_management, user_learning, course_questions>>

\* The three progress fields of newRecord and of updatePayload.
Supplied(body) ==
  [progress |-> OrObject(body.progress, OrObject(body.course_progress, << >>)),
   completed_modules_count |->
     OrNumber(body.completed_modules_count, OrNumber(body.completed_modules, 0)),
   total_modules_count |->
     OrNumber(body.total_modules_count, OrNumber(body.total_modules, 0))]

\* insert into user_learning (newRecord) .select('*').single()
UpdateInsert(r) ==
  /\ lreq[r].pc = "uinsert"
  /\ \E fault \in BOOLEAN :
       LET s == Supplied(lreq[r].body)
           newRecord == NewRecord(NewId(user_learning), lreq[r].supabaseUserId,
                                  lreq[r].body.courseId, s.progress,
                                  s.completed_modules_count, s.total_modules_count)
       IN  IF fault
           THEN /\ LearnFail(r, {"lwrite"}, "create error")
                /\ UNCHANGED user_learning
           ELSE /\ user_learning' = user_learning \cup {newRecord}
                /\ lreq' = [lreq EXCEPT ![r].pc = "done", ![r].learningWrites = @ + 1,
                              ![r].response = ResultResponse(newRecord)]
  /\ UNCHANGED <<resolveVars, hook, req, payments, subscriptions, profiles, now, ticks,
                 started, user_certificates, certificates,
                 course_certificate_management, course_questions>>

\* update user_learning set (updatePayload) where user_id = ... and
\* course_id = ... .select('*').single(): every row of the pair is written;
\* unless exactly one row comes back the call ends in an error, with the
\* rows written or left as they were.
UpdateRecord(r) ==
  /\ lreq[r].pc = "uupdate"
  /\ \E fault \in BOOLEAN, kept \in BOOLEAN :
       LET s == Supplied(lreq[r].body)
           rows == LearningRows(lreq[r].supabaseUserId, lreq[r].body.courseId)
           written(x) ==
             [x EXCEPT !.progress = s.progress,
                       !.completed_modules_count = s.completed_modules_count,
                       !.total_modules_count = s.total_modules_count,
                       !.updated_at = ToISOString(now)]
           after == {IF x \in rows THEN written(x) ELSE x : x \in user_learning}
       IN  IF fault
           THEN /\ LearnFail(r, {"lwrite"}, "update error")
                /\ UNCHANGED user_learning
           ELSE IF Cardinality(rows) # 1
           THEN /\ LearnFail(r, {"single"}, "JSON object requested, multiple (or no) rows returned")
                /\ user_learning' = IF kept THEN after ELSE user_learning
           ELSE /\ user_learning' = after
                /\ lreq' = [lreq EXCEPT ![r].pc = "done", ![r].learningWrites = @ + 1,
                              ![r].response =
                                ResultResponse(written(CHOOSE x \in rows : TRUE))]
  /\ UNCHANGED <<resolveVars, hook, req, payments, subscriptions, profiles, now, ticks,
                 started, user_certificates, certificates,
                 course_certificate_management, course_questions>>

\* Variant: an unknown action is answered with an empty result.
UnknownLearnAction_accepted(r, body) ==
  /\ lreq[r].pc = "idle"
  /\ started < MaxStarted
  /\ started' = started + 1
  /\ body.action \notin {"fetch", "update", "evaluateAssessment"}
  /\ \E rnd \in RandomUUIDs :
       lreq' = [lreq EXCEPT ![r] =
         LET q == Accept(body, rnd)
         IN  IF q.pc = "done" THEN q
             ELSE [q EXCEPT !.pc = "done",
                            !.response = ResultResponse(NoRow)]]
  /\ UNCHANGED <<resolveVars, hook, req, payments, subscriptions, profiles, now, ticks,
                 user_certificates, certificates, course_certificate_management,
                 user_learning, course_questions>>

\* An action the switch does not know.
UnknownLearnAction(r, body) ==
  /\ lreq[r].pc = "idle"
  /\ started < MaxStarted
  /\ started' = started + 1
  /\ body.action \notin {"fetch", "update", "evaluateAssessment"}
  /\ \E rnd \in RandomUUIDs :
       lreq' = [lreq EXCEPT ![r] =
         LET q == Accept(body, rnd)
         IN  IF q.pc = "done" THEN q
             ELSE [q EXCEPT !.pc = "done",
                            !.response = LearnErrorResponse("Unknown action: " \o body.action)]]
  /\ UNCHANGED <<resolveVars, hook, req, payments, subscriptions, profiles, now, ticks,
                 user_certificates, certificates, course_certificate_management,
                 user_learning, course_questions>>

\* --- fetch, update and evaluateAssessment side by side ---
\* Requests of one user for one course; the assessment carries no course
\* name, so it ends once the LearningRecord is written.
LearnBodies ==
  { FetchBody(UserT, CourseA, 3),
    UpdateBody(UserT, CourseA, <<1>>, Null, 1, Undefined, 3, Undefined),
    UpdateBody(UserT, CourseA, <<1, 2>>, Null, Undefined, Undefined, Undefined, Undefined),
    UpdateBody(UserT, CourseA, Null, << >>, Undefined, 2, Undefined, 3),
    AssessBody(UserT, CourseA, "", TRUE, AllCorrect(2)) }

NextLearn ==
  \E r \in Reqs :
    \/ /\ lreq[r].pc = "idle"
       /\ \E body \in LearnBodies :
            Fetch(r, body) \/ Update(r, body) \/ EvaluateAssessment(r, body)
    \/ LearnEnsureProfile(r)
    \/ FetchSelect(r)
    \/ FetchInsert(r)
    \/ UpdateSelect(r)
    \/ UpdateInsert(r)
    \/ UpdateRecord(r)
    \/ FetchQuestions(r)
    \/ SelectLearning(r)
    \/ UpdateLearning(r)
    \/ InsertLearning(r)

\* Every slot serves one request and keeps its response.
SpecLearn == InitAssess /\ [][NextLearn]_vars

\* --- both edge functions, one request at a time ---
\* Requests of every action of either function: complete ones, ones with a
\* required field missing, and action tags the function does not know.
BothPayRequests ==
  ({"verify_payment"} \X
     { VerifyPayload(UserT, EmailT, OrderA, OrderA, ValidSig, "pro"),
       VerifyPayload(UserT, EmailT, OrderA, OrderA, Tamper(ValidSig), "pro"),
       VerifyPayload(<< >>, EmailT, OrderA, OrderA, ValidSig, "pro"),
       VerifyPayload(UserT, << >>, OrderA, OrderA, ValidSig, "pro") })
  \cup ({"create_order", "refund"} \X OrderPayloads)

BothLearnBodies ==
  { FetchBody(UserT, CourseA, 3),
    FetchBody(<< >>, CourseA, 3),
    UpdateBody(UserT, CourseA, <<1>>, Null, 1, Undefined, 3, Undefined),
    UpdateBody(<< >>, CourseA, <<1>>, Null, 1, Undefined, 3, Undefined),
    AssessBody(UserT, CourseA, CourseNameA, TRUE, AllCorrect(2)),
    AssessBody(<< >>, CourseA, CourseNameA, TRUE, AllCorrect(2)),
    AssessBody(UserT, CourseA, CourseNameA, FALSE, << >>),
    AssessBody(UserT, "", CourseNameA, TRUE, AllCorrect(2)),
    [FetchBody(UserT, CourseA, 3) EXCEPT !.action = "remove"],
    [FetchBody(<< >>, CourseA, 3) EXCEPT !.action = "remove"] }

InitBoth ==
  /\ externalId = << >>
  /\ calls = [s \in Slots |-> None]
  /\ hook = Unmounted
  /\ req = [r \in Reqs |-> IdleReq]
  /\ payments = EmptyBag
  /\ subscriptions = {}
  /\ profiles = {ClientProfile(UserT, EmailT)}
  /\ now = [y |-> 2024, m |-> 0, d |-> 31]
  /\ ticks = 0
  /\ started = 0
  /\ lreq = [r \in Reqs |-> IdleLreq]
  /\ user_certificates = {}
  /\ certificates = {TemplateRow(1)}
  /\ course_certificate_management = {}
  /\ user_learning = {}
  /\ course_questions = Questions(CourseA, 2)

NextBoth ==
  \/ /\ lreq[1].pc = "idle"
     /\ \E q \in BothPayRequests :
          \/ CredentialsMissing(1, q[1], q[2])
          \/ CreateOrder(1, q[1], q[2])
          \/ UnknownAction(1, q[1], q[2])
          \/ VerifySignature(1, q[1], q[2])
  \/ EnsureProfile(1)
  \/ InsertPayment(1)
  \/ UpsertSubscription(1)
  \/ Return(1)
  \/ /\ req[1].pc = "idle"
     /\ lreq[1].pc = "idle"
     /\ \E body \in BothLearnBodies :
          \/ Fetch(1, body)
          \/ Update(1, body)
          \/ EvaluateAssessment(1, body)
          \/ UnknownLearnAction(1, body)
  \/ LearnEnsureProfile(1)
  \/ FetchSelect(1)
  \/ FetchInsert(1)
  \/ UpdateSelect(1)
  \/ UpdateInsert(1)
  \/ UpdateRecord(1)
  \/ FetchQuestions(1)
  \/ SelectLearning(1)
  \/ UpdateLearning(1)
  \/ InsertLearning(1)
  \/ SelectProfile(1)
  \/ IssueStep(1)
  \/ LearnReturn(1)

SpecBoth == InitBoth /\ [][NextBoth]_vars

\* generateCertificate calls that overlap and follow one another: a slot is free again once its
\* call has returned.
NextIssueAgain ==
  \E r \in Reqs :
    \/ \E p \in IssueParams : GenerateCertificate(r, p)
    \/ IssueStep(r)
    \/ LearnReturn(r)

SpecIssueAgain == InitIssue /\ [][NextIssueAgain]_vars

\* --- an update and an evaluateAssessment in flight together ---
\* The pair's LearningRecord exists, as an earlier fetch with totalModules 3
\* has created it.
StoredRecord == NewRecord(1, LearnIdOf(UserT), CourseA, << >>, 0, 3)

RaceUpdateBodies ==
  { UpdateBody(UserT, CourseA, <<1>>, Null, 1, Undefined, 3, Undefined),
    UpdateBody(UserT, CourseA, <<1, 2>>, Null, 2, Undefined, 3, Undefined) }
RaceAssessBodies ==
  { AssessBody(UserT, CourseA, "", TRUE, AllCorrect(2)),
    AssessBody(UserT, CourseA, CourseNameA, TRUE, AllCorrect(2)),
    AssessBody(UserT, CourseA, CourseNameA, TRUE, AllCorrect(1)) }

InitRace ==
  /\ externalId = << >>
  /\ calls = [s \in Slots |-> None]
  /\ hook = Unmounted
  /\ req = [r \in Reqs |-> IdleReq]
  /\ payments = EmptyBag
  /\ subscriptions = {}
  /\ profiles = {ClientProfile(UserT, EmailT)}
  /\ now = [y |-> 2024, m |-> 0, d |-> 31]
  /\ ticks = 0
  /\ started = 0
  /\ lreq = [r \in Reqs |-> IdleLreq]
  /\ user_certificates = {}
  /\ certificates = {TemplateRow(1)}
  /\ course_certificate_management = {}
  /\ user_learning = {StoredRecord}
  /\ course_questions = Questions(CourseA, 2)

NextRace ==
  \/ /\ lreq[1].pc = "idle"
     /\ \E body \in RaceUpdateBodies : Update(1, body)
  \/ /\ lreq[2].pc = "idle"
     /\ \E body \in RaceAssessBodies : EvaluateAssessment(2, body)
  \/ \E r \in {1, 2} :
       \/ LearnEnsureProfile(r)
       \/ UpdateSelect(r)
       \/ UpdateInsert(r)
       \/ UpdateRecord(r)
       \/ FetchQuestions(r)
       \/ SelectLearning(r)
       \/ UpdateLearning(r)
       \/ InsertLearning(r)
       \/ SelectProfile(r)
       \/ IssueStep(r)

SpecRace == InitRace /\ [][NextRace]_vars

\* ------------------------------------------- profile stored procedures
NameA == <<97>>
NameB == <<98>>
EmailA == <<97, 64, 120>>
Admin == <<97, 100, 109, 105, 110>>
Google == <<103, 111, 111, 103, 108, 101>>

\* Profile is keyed by the canonical id.  The table is created outside these
\* files: with a key on id, an UPDATE that would leave two rows under one id
\* fails and the call changes nothing; without one it is applied.
ProfilesKey(P) == \A x \in P, y \in P : x.id = y.id => x = y

\* Arguments (p_full_name, p_email, p_role, p_auth_provider) of the calls.
ProfileArgs ==
  { <<NameA, Null, Null, Null>>,
    <<NameB, EmailB, Student, Clerk>>,
    <<Null, EmailA, Admin, Google>>,
    <<NameB, EmailA, Student, Clerk>> }
ProfileIds == RandomUUIDs \cup {LearnIdOf(UserT)}

\* select public.ensure_user_profile(p_user_id, ...)
EnsureUserProfileCall(p_user_id, a) ==
  /\ started < MaxStarted
  /\ started' = started + 1
  /\ LET Q == EnsureUserProfile(profiles, p_user_id, a[1], a[2], a[3], a[4])
     IN  profiles' \in {Q} \cup (IF ProfilesKey(Q) THEN {} ELSE {profiles})
  /\ UNCHANGED <<learnVars, resolveVars, hook, req, payments, subscriptions, now, ticks>>

\* select public.get_or_create_user_profile(p_clerk_user_id, ...)
GetOrCreateUserProfileCall(p_clerk_user_id, a, rnd) ==
  /\ started < MaxStarted
  /\ started' = started + 1
  /\ LET Q == GetOrCreateUserProfile(profiles, p_clerk_user_id, a[1], a[2], a[3], rnd)
     IN  profiles' \in {Q} \cup (IF ProfilesKey(Q) THEN {} ELSE {profiles})
  /\ UNCHANGED <<learnVars, resolveVars, hook, req, payments, subscriptions, now, ticks>>

InitProfile ==
  /\ externalId = UserT
  /\ calls = [s \in Slots |-> None]
  /\ hook = Unmounted
  /\ req = [r \in 1..MaxReqs |-> [pc |-> "idle"]]
  /\ payments = EmptyBag
  /\ subscriptions = {}
  /\ profiles = {}
  /\ now = [y |-> 2024, m |-> 0, d |-> 30]
  /\ ticks = 0
  /\ started = 0
  /\ LearnAbsent

NextProfile ==
  \/ \E p_user_id \in ProfileIds, a \in ProfileArgs : EnsureUserProfileCall(p_user_id, a)
  \/ \E u \in {UserT, UserB}, a \in ProfileArgs, rnd \in RandomUUIDs :
       GetOrCreateUserProfileCall(u, a, rnd)

SpecProfile == InitProfile /\ [][NextProfile]_vars
\* ------------------------------------------------ the useCertificates hook
\* The component's state is the record hook: the three useState cells
\* (userCertificates, availableCertificates, loading), the values of the auth
\* context (isAuthenticated; hasIds: getSupabaseUserId() and user.id are both
\* there), the effect of the last render ("pending" until React has run it),
\* the values the effect's closure captured, the auth subscription, and the
\* calls of fetchCertificates that wait for a promise.
Fetches == 1..MaxReqs

AuthEvents == {"SIGNED_IN", "TOKEN_REFRESHED", "SIGNED_OUT"}

\* view public.v_unified_certificates filtered as the hook asks:
\* .eq('clerk_user_id', clerkUserId).eq('is_active', true).
UnifiedCertificates(UC, T, CCM, clerkUserId) ==
  { [source |-> "user_certificate", course_id |-> uc.course_id, score |-> uc.score,
     certificate_title |->
       IF \E c \in T : c.id = uc.certificate_id
       THEN (CHOOSE c \in T : c.id = uc.certificate_id).title
       ELSE "Certificate"] :
      uc \in {x \in UC : x.is_active /\ x.clerk_user_id = clerkUserId} }
  \cup
  { [source |-> "certificate_management", course_id |-> ccm.course_id,
     score |-> ccm.assessment_score,
     certificate_title |-> ccm.course_name] :
      ccm \in {x \in CCM : x.course_complete /\ x.assessment_pass
                           /\ x.clerk_user_id = clerkUserId} }

\* The fallback of the processing step: an empty title is replaced.
ProcessedCerts(rows) ==
  { [cert EXCEPT !.certificate_title =
       IF @ = "" THEN "Course Completion Certificate" ELSE @] : cert \in rows }

\* Both lists cleared.
ClearLists(h) ==
  [h EXCEPT !.userCertificates = {}, !.availableCertificates = {}]

\* A call of fetchCertificates up to its first await, made by the closure c
\* in slot f: without authentication it clears the lists, sets loading false
\* and returns; otherwise it waits for ensureSupabaseSession.
FetchCertificates(h, c, f) ==
  IF ~c.isAuthenticated
  THEN [ClearLists(h) EXCEPT !.loading = FALSE]
  ELSE [h EXCEPT !.fetch[f] = [pc |-> "session",
                               isAuthenticated |-> c.isAuthenticated,
                               hasIds |-> c.hasIds]]

FreeFetch(h) == {f \in Fetches : h.fetch[f].pc = "idle"}

\* React runs the effect of the last render: the previous subscription is
\* cancelled, the new closure captures the context, calls fetchCertificates
\* and subscribes to the auth state.
UseEffect ==
  /\ hook.rendered
  /\ hook.effect = "pending"
  /\ FreeFetch(hook) # {}
  /\ LET c == [isAuthenticated |-> hook.isAuthenticated, hasIds |-> hook.hasIds]
         f == CHOOSE f \in FreeFetch(hook) : TRUE
     IN  hook' = [FetchCertificates(hook, c, f) EXCEPT
                    !.effect = "done", !.closure = c, !.subscribed = TRUE]
  /\ UNCHANGED <<externalId, calls, payVars, learnVars>>

\* The auth context gives new values: the dependencies of the effect
\* change, so the next render schedules the effect again.
AuthContextChange(isAuthenticated, hasIds) ==
  /\ hook.rendered
  /\ hook.changes < MaxStarted
  /\ <<isAuthenticated, hasIds>> # <<hook.isAuthenticated, hook.hasIds>>
  /\ hook' = [hook EXCEPT !.isAuthenticated = isAuthenticated,
                          !.hasIds = hasIds,
                          !.effect = "pending",
                          !.changes = @ + 1]
  /\ UNCHANGED <<externalId, calls, payVars, learnVars>>

\* The listener of supabase.auth.onAuthStateChange: it calls the
\* fetchCertificates of the closure that subscribed; loading is not touched.
OnAuthStateChange(event, session) ==
  /\ hook.rendered
  /\ hook.subscribed
  /\ hook.events < MaxStarted
  /\ FreeFetch(hook) # {}
  /\ LET f == CHOOSE f \in FreeFetch(hook) : TRUE
         h == [hook EXCEPT !.events = @ + 1]
     IN  hook' = IF event = "SIGNED_IN" \/ (event = "TOKEN_REFRESHED" /\ session)
                 THEN FetchCertificates(h, hook.closure, f)
                 ELSE h
  /\ UNCHANGED <<externalId, calls, payVars, learnVars>>

\* The finally block, and the end of the call.
FinallyDone(h, f) ==
  [h EXCEPT !.loading = FALSE, !.fetch[f] = NoFetch]

\* await ensureSupabaseSession() settles. A rejection goes to the catch
\* block; without both user ids the lists are cleared and loading is set
\* false before the return, after which the finally block runs as well.
EnsureSupabaseSession(f) ==
  /\ hook.fetch[f].pc = "session"
  /\ \E rejected \in BOOLEAN :
       hook' = IF rejected \/ ~hook.fetch[f].hasIds
               THEN FinallyDone(ClearLists(hook), f)
               ELSE [hook EXCEPT !.fetch[f].pc = "userCerts"]
  /\ UNCHANGED <<externalId, calls, payVars, learnVars>>

\* The query on v_unified_certificates settles: an error clears the user
\* list, a result is processed and stored, an exception goes to the catch
\* and finally blocks.
FetchUserCerts(f) ==
  /\ hook.fetch[f].pc = "userCerts"
  /\ \E outcome \in {"data", "error", "thrown"} :
       hook' =
         CASE outcome = "data" ->
                [hook EXCEPT !.userCertificates =
                               ProcessedCerts(UnifiedCertificates(
                                 user_certificates, certificates,
                                 course_certificate_management, UserT)),
                             !.fetch[f].pc = "available"]
           [] outcome = "error" ->
                [hook EXCEPT !.userCertificates = {},
                             !.fetch[f].pc = "available"]
           [] OTHER -> FinallyDone(ClearLists(hook), f)
  /\ UNCHANGED <<externalId, calls, payVars, learnVars>>

\* The query on certificates settles; the finally block ends the call.
FetchAvailableCerts(f) ==
  /\ hook.fetch[f].pc = "available"
  /\ \E outcome \in {"data", "error", "thrown"} :
       hook' =
         CASE outcome = "data" ->
                FinallyDone([hook EXCEPT !.availableCertificates =
                                           {c \in certificates : c.is_active}], f)
           [] outcome = "error" ->
                FinallyDone([hook EXCEPT !.availableCertificates = {}], f)
           [] OTHER -> FinallyDone(ClearLists(hook), f)
  /\ UNCHANGED <<externalId, calls, payVars, learnVars>>

\* refetch(), called from an event handler: setLoading(true), and then the
\* name fetchCertificates, which is declared inside the effect callback and
\* is not in scope here, cannot be resolved: a ReferenceError is thrown and
\* no call of fetchCertificates is made.
Refetch ==
  /\ hook.rendered
  /\ hook.refetches < MaxStarted
  /\ hook' = [hook EXCEPT !.loading = TRUE, !.refetches = @ + 1]
  /\ UNCHANGED <<externalId, calls, payVars, learnVars>>

IssuedRow(id, clerkUserId, certificate_id) ==
  [id |-> id, user_id |-> LearnIdOf(clerkUserId), clerk_user_id |-> clerkUserId,
   certificate_id |-> certificate_id, course_id |-> CourseA, score |-> 80,
   course_name |-> "Course A", user_name |-> "T", is_active |-> TRUE]

\* The component has rendered once: loading starts true, the lists empty,
\* the effect is still to run. The tables hold what earlier requests left.
InitHook ==
  /\ externalId = << >>
  /\ calls = [s \in Slots |-> None]
  /\ \E isAuthenticated \in BOOLEAN, hasIds \in BOOLEAN :
       hook = [Unmounted EXCEPT !.rendered = TRUE,
                                !.isAuthenticated = isAuthenticated,
                                !.hasIds = hasIds,
                                !.effect = "pending",
                                !.loading = TRUE]
  /\ req = [r \in Reqs |-> IdleReq]
  /\ payments = EmptyBag
  /\ subscriptions = {}
  /\ profiles = {}
  /\ now = [y |-> 2024, m |-> 0, d |-> 31]
  /\ ticks = 0
  /\ started = 0
  /\ lreq = [r \in Reqs |-> IdleLreq]
  /\ user_certificates \in {{}, {IssuedRow(1, UserT, 1), IssuedRow(2, UserB, 7)}}
  /\ certificates = {TemplateRow(1)}
  /\ course_certificate_management = {}
  /\ user_learning = {}
  /\ course_questions = {}

FetchStep(f) ==
  \/ EnsureSupabaseSession(f)
  \/ FetchUserCerts(f)
  \/ FetchAvailableCerts(f)

NextHook ==
  \/ UseEffect
  \/ \E isAuthenticated \in BOOLEAN, hasIds \in BOOLEAN :
       AuthContextChange(isAuthenticated, hasIds)
  \/ \E event \in AuthEvents, session \in BOOLEAN : OnAuthStateChange(event, session)
  \/ \E f \in Fetches : FetchStep(f)
  \/ Refetch

SpecHook == InitHook /\ [][NextHook]_vars

\* React runs a scheduled effect, and every awaited promise settles; nothing
\* obliges the user or the auth client to act.
SpecHookFair ==
  /\ SpecHook
  /\ WF_vars(UseEffect)
  /\ \A f \in Fetches : WF_vars(FetchStep(f))

\* -------------------------------------------------- resolver properties
Called(rt, k) == calls[<<rt, k>>] # None
Ks == {1, 2}

\* C1: the stored-procedure resolver returns the same canonical id as the
\* learning edge function's resolver for every external id.
C1_SqlParity ==
  \A k \in Ks, j \in Ks :
    (Called("sql", k) /\ Called("learn", j))
      => calls[<<"sql", k>>].uuid = calls[<<"learn", j>>].uuid

\* C2: the payment function's resolver and the learning function's resolver
\* return the same canonical id for every external id.
C2_EdgeParity ==
  \A k \in Ks, j \in Ks :
    (Called("pay", k) /\ Called("learn", j))
      => calls[<<"pay", k>>].uuid = calls[<<"learn", j>>].uuid

C2_Witness ==
  /\ Called("pay", 1) /\ Called("learn", 1)
  /\ Len(externalId) >= 2
  /\ PayHash(externalId \o NAMESPACE_UUID, 1, 0) < 0

C4_Shape ==
  \A k \in Ks :
    Called("pay", k) =>
      LET u == calls[<<"pay", k>>].uuid
          d == SubSeq(u, 1, 8)
      IN  /\ Len(PayHex(PayHash(externalId \o NAMESPACE_UUID, 1, 0))) = 8
          /\ Len(u) = 36
          /\ \A i \in 1..8 : IsHexChar(d[i])
          /\ u = d \o <<Hyphen>> \o SubSeq(d, 1, 4) \o <<Hyphen, 52>>
                   \o SubSeq(d, 2, 4) \o <<Hyphen, 97>> \o SubSeq(d, 1, 3)
                   \o <<Hyphen>> \o d \o <<Zero, Zero, Zero, Zero>>

C4_Witness ==
  /\ Called("pay", 1)
  /\ calls[<<"pay", 1>>].uuid[1] = Zero

\* --------------------------------------------------- payment properties
IsVerify(q) == q.pc # "idle" /\ q.action = "verify_payment"
Complete(pl) == pl.user_email # << >> /\ pl.user_id # << >>
IsError(q) ==
  /\ q.pc = "done"
  /\ q.response.status = 400
  /\ DOMAIN q.response.body = {"error", "details"}
ErrorIs(q, msg) == IsError(q) /\ q.response.body.error = msg
IsSuccess(q) == q.pc = "done" /\ q.response = SuccessResponse
\* lowercase hex of the MAC keyed by the configured secret over
\* orderId + "|" + paymentId
SignedFor(pl) ==
  HexEncode(HmacSha256(TextEncode(Secret),
     TextEncode(pl.razorpay_order_id \o <<Pipe>> \o pl.razorpay_payment_id)))

\* C5: a verify_payment request whose signature differs from the expected
\* one ends with an error response, and it inserts no PaymentRecord, changes
\* no Entitlement and makes no profile-ensure call; no stored PaymentRecord
\* carries a signature that does not verify.
C5_BadSignatureCommitsNothing ==
  /\ \A r \in Reqs :
       (IsVerify(req[r]) /\ Complete(req[r].payload)
          /\ req[r].payload.razorpay_signature # SignedFor(req[r].payload))
       => /\ IsError(req[r])
          /\ req[r].inserted = 0
          /\ req[r].upserted = 0
          /\ req[r].profileCalls = 0
  /\ \A row \in BagToSet(payments) : row.razorpay_signature = SignedFor(row)

C5_Witness ==
  \E r \in Reqs :
    /\ ErrorIs(req[r], "Invalid payment signature")
    /\ req[r].payload.razorpay_signature = Tamper(ValidSig)
    /\ \E r2 \in Reqs : IsSuccess(req[r2])

\* C6: a request passes the signature check iff its signature equals the
\* lowercase hex MAC of orderId + "|" + paymentId under the configured secret,
\* and a request that differs from an accepted one in a single character of
\* the signature, the order id or the payment id is rejected.
SigAccepted(q) ==
  q.pc \in {"profile", "insert", "upsert"} \/ (q.pc = "done" /\ q.profileCalls = 1)
SigRejected(q) == ErrorIs(q, "Invalid payment signature")
CredentialsFailed(q) ==
  ErrorIs(q, "Razorpay credentials not configured in admin settings")

DiffersInOneChar(s1, s2) ==
  Len(s1) = Len(s2) /\ Cardinality({k \in 1..Len(s1) : s1[k] # s2[k]}) = 1

OneCharMutation(p1, p2) ==
  /\ [p1 EXCEPT !.razorpay_order_id = << >>, !.razorpay_payment_id = << >>,
                !.razorpay_signature = << >>]
       = [p2 EXCEPT !.razorpay_order_id = << >>, !.razorpay_payment_id = << >>,
                    !.razorpay_signature = << >>]
  /\ \/ /\ DiffersInOneChar(p1.razorpay_order_id, p2.razorpay_order_id)
        /\ p1.razorpay_payment_id = p2.razorpay_payment_id
        /\ p1.razorpay_signature = p2.razorpay_signature
     \/ /\ DiffersInOneChar(p1.razorpay_payment_id, p2.razorpay_payment_id)
        /\ p1.razorpay_order_id = p2.razorpay_order_id
        /\ p1.razorpay_signature = p2.razorpay_signature
     \/ /\ DiffersInOneChar(p1.razorpay_signature, p2.razorpay_signature)
        /\ p1.razorpay_order_id = p2.razorpay_order_id
        /\ p1.razorpay_payment_id = p2.razorpay_payment_id

SeqVerifyPayloads == {q[2] : q \in {x \in SeqRequests : x[1] = "verify_payment"}}

C6_SignatureIff ==
  \A r \in Reqs :
    (IsVerify(req[r]) /\ Complete(req[r].payload)) =>
      LET q == req[r]
          matches == q.payload.razorpay_signature = SignedFor(q.payload)
      IN  /\ SigAccepted(q) \/ SigRejected(q) \/ CredentialsFailed(q)
          /\ SigAccepted(q) => matches
          /\ SigRejected(q) => ~matches
          /\ SigAccepted(q) =>
               \A p \in SeqVerifyPayloads :
                 OneCharMutation(q.payload, p) =>
                   ~SignatureMatches(ExpectedSignature(Secret, p.razorpay_order_id,
                                                       p.razorpay_payment_id),
                                     p.razorpay_signature)

C6_Witness ==
  /\ SigAccepted(req[1])
  /\ \E p1, p2, p3 \in SeqVerifyPayloads :
       /\ OneCharMutation(req[1].payload, p1)
       /\ p1.razorpay_order_id # req[1].payload.razorpay_order_id
       /\ OneCharMutation(req[1].payload, p2)
       /\ p2.razorpay_payment_id # req[1].payload.razorpay_payment_id
       /\ OneCharMutation(req[1].payload, p3)
       /\ p3.razorpay_signature # req[1].payload.razorpay_signature

\* C7: when the Entitlement upsert fails after the request's PaymentRecord
\* insert succeeded, the response is an error, never success, and the
\* PaymentRecord the request inserted is still in the table from then on.
C7_NoRollbackNoFalseSuccess ==
  \A r \in Reqs :
    (req[r].pc = "done" /\ req[r].inserted = 1 /\ req[r].upserted = 0)
    => /\ IsError(req[r])
       /\ ~IsSuccess(req[r])
       /\ BagIn(PaymentRow(req[r]), payments)

C7_Witness ==
  \E r \in Reqs :
    /\ ErrorIs(req[r], "Failed to manage subscription")
    /\ req[r].inserted = 1
    /\ \E r2 \in Reqs : r2 # r /\ req[r2].pc = "done"

\* C8: a request whose PaymentRecord insert fails reports an error, the
\* failing step leaves the Entitlement table as it was, and the request never
\* reaches the upsert.
C8_InsertFailureStops ==
  /\ [](\A r \in Reqs :
          (req[r].pc = "done" /\ req[r].profileCalls = 1 /\ req[r].inserted = 0)
          => (ErrorIs(req[r], "Failed to store payment record")
              /\ req[r].upserted = 0))
  /\ [][\A r \in Reqs :
          /\ (req[r].pc = "insert" /\ req'[r].pc = "done")
               => (/\ ErrorIs(req'[r], "Failed to store payment record")
                   /\ subscriptions' = subscriptions
                   /\ payments' = payments)
          /\ req[r].pc = "insert" => req'[r].pc \in {"insert", "upsert", "done"}]_vars

C8_Witness ==
  \E r \in Reqs :
    /\ ErrorIs(req[r], "Failed to store payment record")
    /\ \E x \in subscriptions : x.user_id = req[r].supabaseUserId

\* C9: a request answers with the success envelope only if it inserted
\* exactly one PaymentRecord and then upserted the Entitlement; every insert
\* adds exactly one row, so identical requests leave one row each.
C9_OneRecordPerSuccess ==
  /\ \A r \in Reqs :
       /\ req[r].inserted \in {0, 1} /\ req[r].upserted \in {0, 1}
       /\ req[r].upserted = 1 => req[r].inserted = 1
       /\ IsSuccess(req[r]) => (req[r].inserted = 1 /\ req[r].upserted = 1)
  /\ \A row \in BagToSet(payments) :
       CopiesIn(row, payments)
         = Cardinality({r \in Reqs : req[r].inserted = 1 /\ PaymentRow(req[r]) = row})
  /\ BagCardinality(payments) = Cardinality({r \in Reqs : req[r].inserted = 1})

C9_Witness ==
  \E r1, r2 \in Reqs :
    /\ r1 # r2
    /\ IsSuccess(req[r1]) /\ IsSuccess(req[r2])
    /\ req[r1].payload = req[r2].payload
    /\ CopiesIn(PaymentRow(req[r1]), payments) = 2

\* C10: the step that completes a successful verify_payment for identity i
\* with plan p at time t leaves exactly one Entitlement of i, with plan p,
\* status active, period start t, period end t plus one calendar month (as
\* the Date object counts it) and was_granted false, whatever i held before.
C10_Entitlement(q) ==
  [user_id |-> q.supabaseUserId, plan_type |-> q.payload.plan_type,
   status |-> "active", current_period_start |-> q.periodStart,
   current_period_end |->
     ToISOString(MakeDate(q.periodStart.year, q.periodStart.month, q.periodStart.day)),
   was_granted |-> FALSE, updated_at |-> q.periodStart]

C11_OverwriteNotAccumulate ==
  [][\A r \in Reqs :
       (/\ req[r].pc = "upsert" /\ IsSuccess(req'[r])
        /\ \E x \in subscriptions :
             x.user_id = req[r].supabaseUserId /\ ~x.was_granted)
       => \A y \in subscriptions' :
            y.user_id = req[r].supabaseUserId
            => /\ y.current_period_start = req[r].periodStart
               /\ y.current_period_end =
                    ToISOString(SetMonthPlusOne(
                      [y |-> req[r].periodStart.year,
                       m |-> req[r].periodStart.month - 1,
                       d |-> req[r].periodStart.day]))]_vars

\* Two successes for one identity, the first on 31 Jan and the second on
\* 1 Feb; the second one's upsert came last and its period ends before the
\* period the first one had written (2 Mar).
C11_Witness ==
  \E r1, r2 \in Reqs :
    /\ IsSuccess(req[r1]) /\ IsSuccess(req[r2])
    /\ req[r1].supabaseUserId = req[r2].supabaseUserId
    /\ req[r1].periodStart = [year |-> 2024, month |-> 1, day |-> 31]
    /\ req[r1].subscriptionEnd = [year |-> 2024, month |-> 3, day |-> 2]
    /\ req[r2].periodStart = [year |-> 2024, month |-> 2, day |-> 1]
    /\ \E x \in subscriptions :
         /\ x.user_id = req[r2].supabaseUserId
         /\ x.current_period_start = [year |-> 2024, month |-> 2, day |-> 1]
         /\ x.current_period_end = [year |-> 2024, month |-> 3, day |-> 1]

\* C12: under any interleaving of verify_payment requests there is at most
\* one Entitlement row per canonical identity, and a purchased row is, field
\* for field, the row one single request upserted.
C12_OneRowOneWriter ==
  /\ \A x, y \in subscriptions : x.user_id = y.user_id => x = y
  /\ \A x \in subscriptions :
       \/ x = AdminGranted(x.user_id)
       \/ \E r \in Reqs : req[r].upserted = 1 /\ x = SubscriptionRow(req[r])

\* Two requests of one identity with different plans and different times
\* have both upserted.
C12_Witness ==
  \E r1, r2 \in Reqs :
    /\ req[r1].upserted = 1 /\ req[r2].upserted = 1
    /\ req[r1].supabaseUserId = req[r2].supabaseUserId
    /\ req[r1].payload.plan_type # req[r2].payload.plan_type
    /\ req[r1].periodStart # req[r2].periodStart
    /\ SubscriptionRow(req[r1]) \in subscriptions

\* ------------------------------------------- credential issuer properties
Passing(q) == q.pc # "idle" /\ q.params # NoPayload /\ q.params.score >= PASSING_SCORE
SamePair(q1, q2) ==
  q1.params.userId = q2.params.userId /\ q1.params.courseId = q2.params.courseId
Issued(q) ==
  /\ q.pc = "done"
  /\ DOMAIN q.certificateResult = {"success", "certificateId", "message"}
  /\ q.certificateResult.success
  /\ q.certificateResult.message = "Certificate generated successfully"
AlreadyIssued(q, id) ==
  /\ q.pc = "done"
  /\ q.certificateResult = [success |-> TRUE, certificateId |-> id,
                            message |-> "Certificate already exists"]
NotEligible(q) ==
  /\ q.pc = "done"
  /\ q.certificateResult = [success |-> FALSE,
                            message |-> "Score below passing threshold"]

\* The row x holds the outcome of the assessment of frame q.
Agrees(x, q) ==
  /\ x.user_id = q.supabaseUserId
  /\ x.course_id = q.body.courseId
  /\ x.assessment_attempted
  /\ x.assessment_passed = q.assessment.passed
  /\ x.is_completed = q.assessment.passed
  /\ x.assessment_score = q.assessment.score
  /\ x.last_assessment_score = q.assessment.score

NoActiveQuestions(courseId) ==
  {q \in course_questions : q.course_id = courseId /\ q.is_active} = {}

\* A learning request that fails validation: no external id, or an
\* evaluateAssessment without questions, answers or courseId.
InvalidLearn(body) ==
  \/ body.clerkUserId = << >>
  \/ /\ body.action = "evaluateAssessment"
     /\ (~body.questions \/ ~body.answersGiven \/ body.courseId = "")
\* A verify_payment without user email or user id.
InvalidPay(q) ==
  /\ q.action = "verify_payment"
  /\ (q.payload.user_email = << >> \/ q.payload.user_id = << >>)
KnownLearnActions == {"fetch", "update", "evaluateAssessment"}
KnownPayActions == {"create_order", "verify_payment"}
\* The step writes nothing.
TablesSame ==
  /\ payments' = payments /\ subscriptions' = subscriptions /\ profiles' = profiles
  /\ user_learning' = user_learning /\ user_certificates' = user_certificates
  /\ certificates' = certificates
  /\ course_certificate_management' = course_certificate_management
\* Steps whose failure ends a learning request.
FatalSteps == {"questions", "fselect", "lwrite", "single"}

\* The response envelope { success, data?, error? }.
Envelope(body) ==
  /\ "success" \in DOMAIN body
  /\ body.success \in BOOLEAN
  /\ IF body.success THEN "data" \in DOMAIN body ELSE "error" \in DOMAIN body

ProfileFields == {"full_name", "email", "role", "auth_provider"}
\* Row y is row x after a call: same id, or re-keyed with x's email.
SameProfile(x, y) == y.id = x.id \/ (x.email # Null /\ y.email = x.email)
\* No two profiles share a contact address.
OneProfilePerEmail ==
  \A x \in profiles, y \in profiles : (x.email # Null /\ x.email = y.email) => x = y

HasPipe(str) == \E k \in 1..Len(str) : str[k] = Pipe
\* verify_payment accepts the payload's signature for the payload's pair.
Accepts(p) ==
  SignatureMatches(ExpectedSignature(Secret, p.razorpay_order_id, p.razorpay_payment_id),
                   p.razorpay_signature)
SamePairSigned(p1, p2) ==
  /\ p1.razorpay_order_id = p2.razorpay_order_id
  /\ p1.razorpay_payment_id = p2.razorpay_payment_id

\* C13: as long as no storage call fails, at most one active Credential
\* exists per (identity, course), also when passing requests for the same
\* pair interleave between the existence check and the insert.
C13_OneActiveCredential ==
  (\A r \in Reqs : lreq[r].faults = {})
  => \A x, y \in user_certificates :
       (x.user_id = y.user_id /\ x.course_id = y.course_id
          /\ x.is_active /\ y.is_active) => x = y

C15_TemplateFallback ==
  \A r \in Reqs :
    (/\ lreq[r].pc = "done" /\ Passing(lreq[r])
     /\ lreq[r].faults = {}
     /\ lreq[r].templatesCreated = 1)
    => /\ Issued(lreq[r])
       /\ lreq[r].inserted = 1
       /\ \E x \in user_certificates :
            /\ x.id = lreq[r].certificateResult.certificateId
            /\ x.certificate_id = lreq[r].defaultCertificate
            /\ x.certificate_id \in {t.id : t \in certificates}

\* C16: a call with a score below 70 returns the not-eligible outcome at
\* once and changes nothing: no completion-tracking update, no template, no
\* Credential.
C16_BelowThresholdNoEffect ==
  /\ [](\A r \in Reqs :
          (lreq[r].pc # "idle" /\ lreq[r].params.score < 70)
          => /\ NotEligible(lreq[r])
             /\ lreq[r].tracking = ""
             /\ lreq[r].templatesCreated = 0
             /\ lreq[r].inserted = 0)
  /\ [][\A r \in Reqs :
          (lreq[r].pc = "idle" /\ lreq'[r].pc # "idle" /\ lreq'[r].params.score < 70)
          => /\ user_certificates' = user_certificates
             /\ certificates' = certificates
             /\ course_certificate_management' = course_certificate_management]_vars

C16_Witness ==
  \E r1, r2 \in Reqs :
    /\ NotEligible(lreq[r1])
    /\ lreq[r1].params.score = 69
    /\ Issued(lreq[r2])
    /\ SamePair(lreq[r1], lreq[r2])
    /\ Cardinality(user_certificates) = 1

C17_CredentialInsertFailureIsError ==
  \A r \in Reqs :
    (/\ lreq[r].caller = "handler"
     /\ lreq[r].pc = "done"
     /\ "save" \in lreq[r].faults)
    => /\ lreq[r].response.status = 400
       /\ lreq[r].response.body.success = FALSE

\* C19: an evaluateAssessment request with a score of 70 or more and a course
\* display name, in which no storage call failed, returns with
\* certificateGenerated = true and a non-null certificateId, and an active
\* Credential for (identity, course) exists.
C19_PassingIssuesCredential ==
  \A r \in Reqs :
    (/\ lreq[r].caller = "handler"
     /\ lreq[r].pc = "done"
     /\ lreq[r].faults = {}
     /\ lreq[r].assessment # NoPayload
     /\ lreq[r].assessment.score >= 70
     /\ lreq[r].body.courseName # "")
    => /\ lreq[r].response.status = 200
       /\ lreq[r].response.body.data.certificateGenerated
       /\ lreq[r].response.body.data.certificateId # NullId
       /\ ActiveCertificates(lreq[r].supabaseUserId, lreq[r].body.courseId) # {}

\* C20: the score is round(100 * correctCount / N), N the number of canonical
\* questions of the course and correctCount the number of submitted answers
\* whose question is canonical and whose choice is its correct choice; an
\* answer to an unknown question counts as incorrect and raises no error.
C20_ScoreIsRounded ==
  \A r \in Reqs :
    (lreq[r].caller = "handler" /\ lreq[r].assessment # NoPayload)
    => LET N == Cardinality({q \in course_questions :
                               q.course_id = lreq[r].body.courseId /\ q.is_active})
           submitted == lreq[r].body.answers
           correctCount ==
             Cardinality({i \in DOMAIN submitted :
                            \E q \in course_questions :
                              /\ q.id = submitted[i].questionId
                              /\ q.correct_answer = submitted[i].selectedAnswer})
       IN  /\ lreq[r].assessment.totalQuestions = N
           /\ lreq[r].assessment.correctAnswers = correctCount
           /\ lreq[r].assessment.score = (200 * correctCount + N) \div (2 * N)

\* C21: for every list of submitted answers and every non-empty canonical
\* question set the computed score is an integer in 0..100, also when the
\* list repeats a question id or is longer than the question set.
C21_ScoreInRange ==
  \A r \in Reqs :
    (lreq[r].caller = "handler" /\ lreq[r].assessment # NoPayload)
    => lreq[r].assessment.score \in 0..100

\* C22: passed is true iff score >= 70; the LearningRecord written by the
\* request holds assessment_passed = is_completed = passed and
\* assessment_score = last_assessment_score = score, the values the response
\* carries.
C22_PassedAndStored ==
  /\ [](\A r \in Reqs :
          (lreq[r].caller = "handler" /\ lreq[r].assessment # NoPayload)
          => /\ lreq[r].assessment.passed <=> lreq[r].assessment.score >= 70
             /\ (lreq[r].pc = "done" /\ lreq[r].response.status = 200)
                => /\ lreq[r].response.body.data.passed = lreq[r].assessment.passed
                   /\ lreq[r].response.body.data.score = lreq[r].assessment.score
                   /\ \E x \in user_learning : Agrees(x, lreq[r]))
  /\ [][\A r \in Reqs :
          lreq[r].pc \in {"lupdate", "linsert"} /\ user_learning' # user_learning
          => \E x \in user_learning' :
               /\ Agrees(x, lreq[r])
               /\ \/ x.id \notin {y.id : y \in user_learning}
                  \/ /\ lreq[r].existingLearning # NoRow
                     /\ x.id = lreq[r].existingLearning.id]_vars

C22_Witness ==
  \E r \in Reqs, x \in user_learning :
    /\ lreq[r].pc = "done"
    /\ lreq[r].response.status = 200
    /\ lreq[r].existingLearning # NoRow
    /\ lreq[r].response.body.data.score = 50
    /\ ~lreq[r].response.body.data.passed
    /\ Agrees(x, lreq[r])
    /\ ~x.is_completed
    /\ user_certificates # {}

\* C23: an evaluateAssessment request for a course without active canonical
\* questions ends with an error, never with a score, and writes no
\* LearningRecord and no Credential.
C23_NoQuestionsIsError ==
  /\ [](\A r \in Reqs :
          (/\ lreq[r].caller = "handler"
           /\ lreq[r].pc \notin {"idle", "profile", "questions"}
           /\ lreq[r].body.clerkUserId # << >>
           /\ lreq[r].body.answersGiven
           /\ NoActiveQuestions(lreq[r].body.courseId))
          => /\ lreq[r].pc = "done"
             /\ lreq[r].response.status = 400
             /\ lreq[r].response.body.success = FALSE
             /\ lreq[r].assessment = NoPayload
             /\ lreq[r].learningWrites = 0
             /\ lreq[r].inserted = 0)
  /\ [][\A r \in Reqs :
          (/\ lreq[r].pc \in {"profile", "questions"}
           /\ NoActiveQuestions(lreq[r].body.courseId))
          => /\ user_learning' = user_learning
             /\ user_certificates' = user_certificates]_vars

C23_Witness ==
  \E r \in Reqs :
    /\ lreq[r].pc = "done"
    /\ lreq[r].body.courseId = CourseB
    /\ lreq[r].faults = {}
    /\ lreq[r].response = LearnErrorResponse("No questions found for this course")
    /\ lreq[r].profileCalls = 1
    /\ user_learning # {}

\* C24: at most one LearningRecord exists per (identity, course) in every
\* reachable state, for any interleaving of concurrent fetch, update and
\* evaluateAssessment requests in which no storage call fails.
C24_OneLearningRecord ==
  (\A r \in Reqs : lreq[r].faults = {})
  => \A x, y \in user_learning :
       (x.user_id = y.user_id /\ x.course_id = y.course_id) => x = y

\* C25: an update of an existing LearningRecord leaves in each of progress,
\* completed module count and total module count the value the request
\* supplies, else the value the record held before, else empty/zero.
C25_PreferNewElsePrior ==
  [][\A r \in Reqs :
       (lreq[r].pc = "uupdate" /\ lreq'[r].learningWrites = lreq[r].learningWrites + 1)
       => \A x \in LearningRows(lreq[r].supabaseUserId, lreq[r].body.courseId) :
            \E y \in user_learning' :
              /\ y.id = x.id
              /\ y.progress =
                   OrObject(lreq[r].body.progress,
                            OrObject(lreq[r].body.course_progress, x.progress))
              /\ y.completed_modules_count =
                   IF lreq[r].body.completed_modules_count # Undefined
                   THEN lreq[r].body.completed_modules_count
                   ELSE IF lreq[r].body.completed_modules # Undefined
                   THEN lreq[r].body.completed_modules
                   ELSE x.completed_modules_count
              /\ y.total_modules_count =
                   IF lreq[r].body.total_modules_count # Undefined
                   THEN lreq[r].body.total_modules_count
                   ELSE IF lreq[r].body.total_modules # Undefined
                   THEN lreq[r].body.total_modules
                   ELSE x.total_modules_count]_vars

\* C26: validation failures have no side effects: a learning request
\* without external id, an evaluateAssessment without questions, answers or
\* courseId and a verify_payment without user email or user id each end with
\* an error response, and make no storage write and no profile-ensure call.
C26_ValidationNoSideEffects ==
  /\ [](\A r \in Reqs :
          /\ (lreq[r].pc # "idle" /\ lreq[r].caller = "handler" /\ InvalidLearn(lreq[r].body))
             => /\ lreq[r].pc = "done"
                /\ lreq[r].response.status = 400
                /\ lreq[r].response.body.success = FALSE
                /\ "error" \in DOMAIN lreq[r].response.body
                /\ lreq[r].profileCalls = 0
                /\ lreq[r].learningWrites = 0
                /\ lreq[r].templatesCreated = 0
                /\ lreq[r].inserted = 0
          /\ (req[r].pc # "idle" /\ InvalidPay(req[r]))
             => /\ req[r].pc = "done"
                /\ req[r].response.status = 400
                /\ "error" \in DOMAIN req[r].response.body
                /\ req[r].profileCalls = 0
                /\ req[r].inserted = 0
                /\ req[r].upserted = 0)
  /\ [][\A r \in Reqs :
          /\ (lreq[r].pc = "idle" /\ lreq'[r].pc # "idle" /\ InvalidLearn(lreq'[r].body))
             => TablesSame
          /\ (req[r].pc = "idle" /\ req'[r].pc # "idle" /\ InvalidPay(req'[r]))
             => TablesSame]_vars

C26_Witness ==
  \E r \in Reqs :
    /\ lreq[r].pc = "done"
    /\ lreq[r].body.action = "evaluateAssessment"
    /\ lreq[r].body.clerkUserId = UserT
    /\ lreq[r].body.courseId = ""
    /\ lreq[r].response = LearnErrorResponse(
         "Questions, answers, and courseId are required for assessment evaluation")
    /\ user_learning # {}
    /\ payments # EmptyBag

\* C27: a failure of the profile-ensure step never ends a request: in
\* verify_payment, fetch, update and evaluateAssessment the next step runs
\* whatever the call did, and whether the response is a success or a failure
\* is decided by the steps after it.
C27_ProfileFailureContinues ==
  /\ [][\A r \in Reqs :
          /\ (lreq[r].pc = "profile" /\ lreq'[r] # lreq[r])
             => /\ lreq'[r].pc =
                     CASE lreq[r].action = "fetch" -> "fselect"
                       [] lreq[r].action = "update" -> "uselect"
                       [] OTHER -> "questions"
                /\ lreq'[r].response = NoResponse
          /\ (req[r].pc = "profile" /\ req'[r] # req[r])
             => /\ req'[r].pc = "insert"
                /\ req'[r].response = NoResponse]_vars
  /\ [](\A r \in Reqs :
          /\ (lreq[r].pc = "done" /\ lreq[r].profileCalls = 1)
             => (lreq[r].response.status = 200 <=> lreq[r].faults \cap FatalSteps = {})
          /\ (req[r].pc = "done" /\ req[r].profileCalls = 1)
             => (req[r].response.status = 200
                   <=> (req[r].inserted = 1 /\ req[r].upserted = 1)))

C27_Witness ==
  \E r \in Reqs :
    /\ lreq[r].pc = "done"
    /\ lreq[r].faults = {"profile"}
    /\ lreq[r].action = "evaluateAssessment"
    /\ lreq[r].response.status = 200
    /\ lreq[r].response.body.data.certificateGenerated
    /\ lreq[r].inserted = 1
    /\ payments # EmptyBag

\* C28: a failure caused by validation or by an unrecognised action carries
\* a client-error status (4xx); a failure with any other cause carries
\* another, generic failure status.
C28_StatusByCause ==
  \A r \in Reqs :
    /\ (lreq[r].pc = "done" /\ lreq[r].caller = "handler"
          /\ lreq[r].response.status # 200)
       => IF InvalidLearn(lreq[r].body) \/ lreq[r].action \notin KnownLearnActions
          THEN lreq[r].response.status \in 400..499
          ELSE lreq[r].response.status >= 500
    /\ (req[r].pc = "done" /\ req[r].response.status # 200)
       => IF InvalidPay(req[r]) \/ req[r].action \notin KnownPayActions
          THEN req[r].response.status \in 400..499
          ELSE req[r].response.status >= 500

\* C29: every response of either function is an envelope with a boolean
\* success field: success = true with the payload under data, or success =
\* false with an error string.
C29_Envelope ==
  \A r \in Reqs :
    /\ (lreq[r].pc = "done" /\ lreq[r].caller = "handler")
       => Envelope(lreq[r].response.body)
    /\ req[r].pc = "done" => Envelope(req[r].response.body)

\* C30 (as stated): a request whose action tag the handler does not
\* recognise fails with the 'unknown action' error and changes no stored
\* record.
C30_UnknownActionError ==
  /\ [](\A r \in Reqs :
          /\ (lreq[r].pc # "idle" /\ lreq[r].caller = "handler"
                /\ lreq[r].action \notin KnownLearnActions)
             => /\ lreq[r].pc = "done"
                /\ lreq[r].response = LearnErrorResponse("Unknown action: " \o lreq[r].action)
          /\ (req[r].pc # "idle" /\ req[r].action \notin KnownPayActions)
             => /\ req[r].pc = "done"
                /\ req[r].response = ErrorResponse("Invalid action"))
  /\ [][\A r \in Reqs :
          /\ (lreq[r].pc = "idle" /\ lreq'[r].pc # "idle"
                /\ lreq'[r].action \notin KnownLearnActions) => TablesSame
          /\ (req[r].pc = "idle" /\ req'[r].pc # "idle"
                /\ req'[r].action \notin KnownPayActions) => TablesSame]_vars

\* C30: a request whose action tag the handler does not recognise fails
\* with an error and changes no stored record; the error is the 'unknown
\* action' error whenever the checks made before the action is looked at
\* pass (the external id is present in the learning function, the gateway
\* credentials are configured in the payment function).
C30_UnknownActionFails ==
  /\ [](\A r \in Reqs :
          /\ (lreq[r].pc # "idle" /\ lreq[r].caller = "handler"
                /\ lreq[r].action \notin KnownLearnActions)
             => /\ lreq[r].pc = "done"
                /\ lreq[r].response =
                     IF lreq[r].body.clerkUserId = << >>
                     THEN LearnErrorResponse("Clerk user ID is required")
                     ELSE LearnErrorResponse("Unknown action: " \o lreq[r].action)
                /\ lreq[r].profileCalls = 0
                /\ lreq[r].learningWrites = 0
                /\ lreq[r].inserted = 0
                /\ lreq[r].templatesCreated = 0
          /\ (req[r].pc # "idle" /\ req[r].action \notin KnownPayActions)
             => /\ req[r].pc = "done"
                /\ \/ req[r].response = ErrorResponse("Invalid action")
                   \/ CredentialsFailed(req[r])
                /\ req[r].profileCalls = 0
                /\ req[r].inserted = 0
                /\ req[r].upserted = 0)
  /\ [][\A r \in Reqs :
          /\ (lreq[r].pc = "idle" /\ lreq'[r].pc # "idle"
                /\ lreq'[r].action \notin KnownLearnActions) => TablesSame
          /\ (req[r].pc = "idle" /\ req'[r].pc # "idle"
                /\ req'[r].action \notin KnownPayActions) => TablesSame]_vars

C30_Witness ==
  \E r \in Reqs :
    /\ lreq[r].pc = "done"
    /\ lreq[r].action = "remove"
    /\ lreq[r].response = LearnErrorResponse("Unknown action: remove")
    /\ user_learning # {}
    /\ payments # EmptyBag

\* C31: profile first-write-wins: in any sequence of ensure_user_profile and
\* get_or_create_user_profile calls, a full name, email, role or auth
\* provider that is non-null keeps its value; a call only fills fields that
\* are still null, and no profile is lost.
C31_FirstWriteWins ==
  [][\A x \in profiles :
       \E y \in profiles' :
         /\ SameProfile(x, y)
         /\ \A f \in ProfileFields : x[f] # Null => y[f] = x[f]]_vars

C31_Witness ==
  /\ started >= 2
  /\ \E x \in profiles :
       /\ x.full_name = NameA
       /\ x.email = EmailB
       /\ x.role = Student
       /\ x.auth_provider = Clerk

\* C32: profile adoption by email: a row appears under an id that had no
\* profile either by re-keying the one profile that holds the call's email
\* (no row is added) or, when no profile holds that email, by an insert;
\* so a sequence of calls never leaves two profiles with the same email.
C32_AdoptionByEmail ==
  /\ [][\A y \in profiles' :
          (\A x \in profiles : x.id # y.id)
          => IF \E x \in profiles : EmailIs(x, y.email)
             THEN /\ Cardinality(profiles') = Cardinality(profiles)
                  /\ \E x \in profiles : EmailIs(x, y.email) /\ x \notin profiles'
             ELSE profiles' = profiles \cup {y}]_vars
  /\ []OneProfilePerEmail

\* C33: create_order writes no stored record (no profile, PaymentRecord,
\* Entitlement, LearningRecord or Credential) and posts to the gateway an
\* order whose amount is the caller-supplied amount multiplied by 100.
C33_CreateOrderPassthrough ==
  /\ [](\A r \in Reqs :
          (req[r].pc # "idle" /\ req[r].action = "create_order")
          => /\ req[r].pc = "done"
             /\ req[r].inserted = 0 /\ req[r].upserted = 0 /\ req[r].profileCalls = 0
             /\ \/ CredentialsFailed(req[r]) /\ req[r].order = NoOrder
                \/ /\ req[r].order # NoOrder
                   /\ req[r].order.amount = req[r].payload.amount * 100
                   /\ req[r].order.receipt = req[r].payload.receipt
                   /\ req[r].response.status = 200
                      => req[r].response.body.amount = req[r].payload.amount * 100)
  /\ [][\A r \in Reqs :
          (req[r].pc = "idle" /\ req'[r].pc # "idle" /\ req'[r].action = "create_order")
          => TablesSame]_vars

C33_Witness ==
  \E r \in Reqs :
    /\ req[r].pc = "done"
    /\ req[r].action = "create_order"
    /\ req[r].payload.amount = 999
    /\ req[r].response.status = 200
    /\ req[r].response.body.amount = 99900
    /\ req[r].response.body.currency = "INR"
    /\ payments # EmptyBag
    /\ subscriptions # {}
    /\ user_learning # {}

\* C34: the stored-procedure resolver is a total deterministic function: its
\* 32-bit arithmetic never raises a fault, the EXCEPTION branch returning
\* gen_random_uuid() is never taken, and two calls with the same input
\* return the same UUID.
C34_SqlTotalDeterministic ==
  /\ \A k \in Ks : Called("sql", k) => ~calls[<<"sql", k>>].fallback
  /\ (Called("sql", 1) /\ Called("sql", 2))
       => calls[<<"sql", 1>>].uuid = calls[<<"sql", 2>>].uuid

\* C35: whenever at least one active Credential exists for (identity,
\* course) and the existence check itself does not fail, a passing
\* generateCertificate call ends at the check with the 'already exists'
\* outcome, carries the id of one of the existing rows and inserts nothing;
\* this for one, two or more active rows of the pair.
C35_AlreadyIssuedAnyCount ==
  [][\A r \in Reqs :
       LET rows == ActiveCertificates(lreq[r].params.userId, lreq[r].params.courseId)
       IN  (/\ lreq[r].pc = "check"
            /\ lreq'[r] # lreq[r]
            /\ "check" \notin lreq'[r].faults
            /\ rows # {})
           => /\ \E x \in rows : AlreadyIssued(lreq'[r], x.id)
              /\ lreq'[r].inserted = 0
              /\ user_certificates' = user_certificates]_vars

\* C36: ordering of the payment saga: in every reachable state an
\* Entitlement written by the purchase path (was_granted = false) for an
\* identity exists only if a PaymentRecord for that identity exists, and no
\* request upserts the Entitlement before its own PaymentRecord insert has
\* succeeded.
C36_PaymentBeforeEntitlement ==
  /\ [](\A s \in subscriptions :
          ~s.was_granted => \E p \in BagToSet(payments) : p.user_id = s.user_id)
  /\ [][\A r \in Reqs :
          req'[r].upserted > req[r].upserted
          => /\ req[r].inserted = 1
             /\ \E p \in BagToSet(payments) :
                  /\ p.user_id = req[r].supabaseUserId
                  /\ p.razorpay_payment_id = req[r].payload.razorpay_payment_id]_vars

C36_Witness ==
  /\ \E s \in subscriptions : ~s.was_granted /\ s.user_id = PayGenerateConsistentUUID(UserT, << >>).uuid
  /\ \E r \in Reqs : ErrorIs(req[r], "Failed to manage subscription")
  /\ \E r \in Reqs : IsSuccess(req[r])

\* C37: Credential and LearningRecord stay consistent: in every reachable
\* state an active Credential for (identity, course) comes with a
\* LearningRecord of that pair that has assessment_passed = true and
\* is_completed = true, also after later evaluateAssessment requests.
C37_CredentialImpliesPassedRecord ==
  \A c \in user_certificates :
    c.is_active
    => \E x \in user_learning :
         /\ x.user_id = c.user_id
         /\ x.course_id = c.course_id
         /\ x.assessment_passed
         /\ x.is_completed

\* C38: evaluateAssessment never changes the progress map or the
\* completed-module count of an existing LearningRecord: its write leaves
\* both as stored, and for any interleaving of an update request and an
\* evaluateAssessment request on the same (identity, course) in which no
\* storage call fails, once both have returned the record holds the
\* progress and the completed count written by the update.
C38_AssessmentKeepsProgress ==
  /\ [][\A r \in Reqs :
          (lreq[r].pc = "lupdate" /\ lreq'[r] # lreq[r])
          => \A x \in user_learning :
               \E y \in user_learning' :
                 /\ y.id = x.id
                 /\ y.progress = x.progress
                 /\ y.completed_modules_count = x.completed_modules_count]_vars
  /\ []((/\ lreq[1].pc = "done" /\ lreq[1].action = "update"
         /\ lreq[1].response.status = 200 /\ lreq[1].faults = {}
         /\ lreq[2].pc = "done" /\ lreq[2].action = "evaluateAssessment"
         /\ lreq[2].response.status = 200 /\ lreq[2].faults = {})
        => \A x \in LearningRows(lreq[1].supabaseUserId, lreq[1].body.courseId) :
             /\ x.progress = Supplied(lreq[1].body).progress
             /\ x.completed_modules_count
                  = Supplied(lreq[1].body).completed_modules_count)

\* C39 (as stated): signature binding to the pair: a signature that
\* verify_payment accepts for (orderId, paymentId) is accepted for no other
\* pair under the same secret, for all strings, also ones that contain '|'.
C39_SignatureBindsPair ==
  \A r \in Reqs :
    (IsVerify(req[r]) /\ SigAccepted(req[r]))
    => \A p \in SeqVerifyPayloads :
         (p.razorpay_signature = req[r].payload.razorpay_signature
            /\ ~SamePairSigned(p, req[r].payload))
         => ~Accepts(p)

\* C39: signature binding to the pair: a signature that verify_payment
\* accepts for (orderId, paymentId) is accepted for no other pair under the
\* same secret, for all strings such that the two order ids or the two
\* payment ids contain no '|'.
C39_SignatureBindsPlainPair ==
  \A r \in Reqs :
    (IsVerify(req[r]) /\ SigAccepted(req[r]))
    => \A p \in SeqVerifyPayloads :
         (/\ p.razorpay_signature = req[r].payload.razorpay_signature
          /\ ~SamePairSigned(p, req[r].payload)
          /\ \/ ~HasPipe(p.razorpay_order_id) /\ ~HasPipe(req[r].payload.razorpay_order_id)
             \/ ~HasPipe(p.razorpay_payment_id)
                  /\ ~HasPipe(req[r].payload.razorpay_payment_id))
         => ~Accepts(p)

C39_Witness ==
  /\ IsSuccess(req[1])
  /\ req[1].payload.razorpay_order_id = OrderAA
  /\ req[1].payload.razorpay_payment_id = OrderA
  /\ \E p \in SeqVerifyPayloads :
       /\ p.razorpay_signature = req[1].payload.razorpay_signature
       /\ p.razorpay_order_id = OrderA
       /\ p.razorpay_payment_id = OrderA
       /\ ~Accepts(p)

\* A call of fetchCertificates ends in the step: a waiting call returns, or
\* the effect's call returns at once for want of authentication.
FetchEnds ==
  \/ \E f \in Fetches : hook.fetch[f].pc # "idle" /\ hook'.fetch[f].pc = "idle"
  \/ /\ hook.effect = "pending"
     /\ hook'.effect = "done"
     /\ ~hook'.closure.isAuthenticated

\* C40: in the useCertificates hook the loading flag always settles: after
\* every fetch (unauthenticated, missing user id, query error, thrown
\* exception or success) loading is false, every call of refetch() sets
\* loading true, and whenever loading is true it eventually becomes false
\* again.
C40_LoadingSettles ==
  /\ [][FetchEnds => ~hook'.loading]_vars
  /\ [][hook'.refetches # hook.refetches => hook'.loading]_vars
  /\ [](hook.loading => <>(~hook.loading))
====
